---- MODULE Spec2Model ----
(***************************************************************************)
(* Verification model of the query orchestration pipeline of the           *)
(* intelligent-search-platform backend: the scoped retrieval filter        *)
(* (backend/pipeline/retriever.py), the rule-based recommender             *)
(* (backend/pipeline/recommender.py), the answer generator contract        *)
(* (backend/pipeline/generator.py) and the tiered orchestrator with its    *)
(* two execution surfaces (backend/pipeline/orchestrator.py).              *)
(***************************************************************************)
EXTENDS Integers, Sequences, FiniteSets, TLC

VARIABLES
    \* ---- concurrent requests in one server process (SpecLoop, SpecSingleton) ----
    task,         \* task[t]: position and locals of concurrent request t
    process,      \* process-wide state: module globals, the event loop
    \* ---- one call of a pure function (SpecGenerate, SpecRecommend, SpecPlayIds);
    \* ---- in SpecClassifier, how the classifier's reply text is composed ----
    call_args,    \* the arguments of the call
    call_result,  \* what the call returned: <<>> before it, <<value>> after
    \* ---- filter builder harness (SpecFilter) ----
    fctx,         \* fctx[k]: the UserContext handed to build_pinecone_filter, k \in Slots
    fintent,      \* fintent[k]: the intent string handed to build_pinecone_filter
    fbuilt,       \* fbuilt[k]: TRUE once build_pinecone_filter has returned for slot k
    ffilter,      \* ffilter[k]: the filter it returned
    \* ---- one search request, served on both surfaces (Spec) ----
    query,        \* SearchRequest.query, a sequence of words
    mode,         \* SearchRequest.mode
    user_context, \* the trusted UserContext of the request
    provider,     \* what the external providers answer for this request
    pc,           \* pc[s]: position of surface s \in Surfaces in its coroutine
    intent_result,\* intent_result[s]: the IntentResult local of surface s
    chunks,       \* chunks[s]: the retrieved SourceChunk list
    response,     \* response["run"]: the SearchResponse returned by Orchestrator.run
    frames,       \* the SSE frames yielded so far by Orchestrator.run_stream
    token_buffer, \* run_stream's token_buffer local
    pos,          \* how many provider stream chunks run_stream has consumed / relayed
    exc,          \* exc[s]: TRUE when an exception is in flight or was raised on s
    calls         \* calls[s]: provider calls made so far on surface s

processVars == <<task, process>>
unitVars == <<call_args, call_result>>
filterVars == <<fctx, fintent, fbuilt, ffilter>>
requestVars == <<query, mode, user_context, provider>>
surfaceVars == <<pc, intent_result, chunks, response, frames, token_buffer, pos, exc, calls>>
vars == <<processVars, unitVars, filterVars, requestVars, surfaceVars>>

(***************************************************************************)
(* Bounds of the model.                                                    *)
(***************************************************************************)
MaxPlays == 2      \* assigned plays per user context
MaxMatches == 2    \* matches one index query returns
MaxTokens == 2     \* chunks one provider token stream yields

(***************************************************************************)
(* Values.                                                                 *)
(***************************************************************************)
NoValue == "<none>"          \* Python None / a metadata key that is absent
Companies == {"comp-a", "comp-b"}
Users == {"user-1", "user-2"}
Plays == {"play-1", "play-2"}

KnownIntents ==
    {"assigned_knowledge", "performance_history", "combined",
     "general_professional", "out_of_scope"}

\* The pure-function harness before any call, and in the specifications that
\* do not use it.
NotCalled == <<>>
\* No concurrent requests are modelled.
IdleProcessVars == task = <<>> /\ process = NoValue

IdleUnitVars ==
    /\ call_args = NoValue /\ call_result = NotCalled
    /\ IdleProcessVars

(***************************************************************************)
(* UserContext (backend/core/user_context.py).                             *)
(***************************************************************************)
AssignedPlay(play_id, play_title, status) ==
    [play_id |-> play_id, play_title |-> play_title, status |-> status]

UserContext(user_id, company_id, assigned_plays) ==
    [user_id |-> user_id, company_id |-> company_id, assigned_plays |-> assigned_plays]

assigned_play_ids(ctx) ==
    [i \in 1..Len(ctx.assigned_plays) |-> ctx.assigned_plays[i].play_id]

(***************************************************************************)
(* The filter expressions of retriever.py: nested dict literals            *)
(* {"$and": [...]}, {"$or": [...]}, {field: {"$eq": v}}, {field: {"$in":   *)
(* [...]}}.  Every node is a record of one shape; the fields a node kind    *)
(* does not use hold their empty value.                                    *)
(***************************************************************************)
Eq(field, value) ==
    [op |-> "$eq", field |-> field, val |-> value, vals |-> <<>>, args |-> <<>>]

In(field, values) ==
    [op |-> "$in", field |-> field, val |-> NoValue, vals |-> values, args |-> <<>>]

And(nodes) ==
    [op |-> "$and", field |-> NoValue, val |-> NoValue, vals |-> <<>>, args |-> nodes]

Or(nodes) ==
    [op |-> "$or", field |-> NoValue, val |-> NoValue, vals |-> <<>>, args |-> nodes]

NoFilter == [op |-> "<unset>", field |-> NoValue, val |-> NoValue, vals |-> <<>>, args |-> <<>>]

\* Mutant of company_fence: the fence compares with a fixed tenant.
company_fence_constant(ctx) == Eq("company_id", "comp-a")

company_fence(ctx) == Eq("company_id", ctx.company_id)

knowledge_filter(ctx) ==
    And(<<company_fence(ctx),
          Eq("content_type", "knowledge"),
          In("play_id", assigned_play_ids(ctx))>>)

submission_filter(ctx) ==
    And(<<company_fence(ctx),
          Eq("content_type", "submission"),
          Eq("user_id", ctx.user_id)>>)

\* Mutant of combined_filter: the submission branch of the $or loses its
\* per-user fence.
combined_filter_no_user_fence(ctx) ==
    And(<<company_fence(ctx),
          Or(<<And(<<Eq("content_type", "knowledge"),
                     In("play_id", assigned_play_ids(ctx))>>),
               And(<<Eq("content_type", "submission")>>)>>)>>)

combined_filter(ctx) ==
    And(<<company_fence(ctx),
          Or(<<And(<<Eq("content_type", "knowledge"),
                     In("play_id", assigned_play_ids(ctx))>>),
               And(<<Eq("content_type", "submission"),
                     Eq("user_id", ctx.user_id)>>)>>)>>)

\* Mutants of build_pinecone_filter.
build_pinecone_filter_no_fence(ctx, intent) ==
    IF intent = "performance_history" THEN submission_filter(ctx)
    ELSE IF intent = "combined"
         THEN Or(<<And(<<Eq("content_type", "knowledge"),
                         In("play_id", assigned_play_ids(ctx))>>),
                   And(<<Eq("content_type", "submission"),
                         Eq("user_id", ctx.user_id)>>)>>)
         ELSE knowledge_filter(ctx)

build_pinecone_filter_swapped(ctx, intent) ==
    IF intent = "performance_history" THEN submission_filter(ctx)
    ELSE IF intent = "combined" THEN combined_filter(ctx)
    ELSE IF intent \in KnownIntents THEN knowledge_filter(ctx)
    ELSE combined_filter(ctx)

build_pinecone_filter(ctx, intent) ==
    IF intent = "performance_history" THEN submission_filter(ctx)
    ELSE IF intent = "combined" THEN combined_filter(ctx)
    ELSE knowledge_filter(ctx)

(***************************************************************************)
(* The vector index's metadata pre-filter: which stored records a filter   *)
(* expression lets through.  A record is the metadata written at ingestion *)
(* (company_id, content_type, play_id, user_id); a key that was not stored *)
(* reads NoValue and matches no $eq / $in.                                 *)
(***************************************************************************)
ContentTypes == {"knowledge", "submission"}

IndexRecords ==
    [company_id : Companies, content_type : ContentTypes,
     play_id : Plays \cup {NoValue}, user_id : Users \cup {NoValue}]

RECURSIVE Satisfies(_, _)
Satisfies(rec, f) ==
    CASE f.op = "$eq" -> rec[f.field] # NoValue /\ rec[f.field] = f.val
      [] f.op = "$in" -> rec[f.field] # NoValue
                         /\ \E i \in 1..Len(f.vals) : f.vals[i] = rec[f.field]
      [] f.op = "$and" -> \A i \in 1..Len(f.args) : Satisfies(rec, f.args[i])
      [] f.op = "$or" -> \E i \in 1..Len(f.args) : Satisfies(rec, f.args[i])
      [] OTHER -> FALSE

(***************************************************************************)
(* Harness for the filter builder: two callers, each with its own trusted  *)
(* context and an arbitrary intent string, call build_pinecone_filter.     *)
(***************************************************************************)
Slots == {"a", "b"}

RECURSIVE SeqsUpTo(_, _)
SeqsUpTo(S, n) ==
    IF n = 0 THEN {<<>>}
    ELSE LET shorter == SeqsUpTo(S, n - 1)
         IN  shorter \cup {Append(q, x) : q \in shorter, x \in S}

FilterIntents == KnownIntents \cup {"not_an_intent"}

FilterContexts ==
    {UserContext(u, c, [i \in 1..Len(ps) |-> AssignedPlay(ps[i], <<>>, "assigned")]) :
        u \in Users, c \in Companies, ps \in SeqsUpTo(Plays, MaxPlays)}

BuildFilter(k) ==
    /\ ~fbuilt[k]
    /\ fbuilt' = [fbuilt EXCEPT ![k] = TRUE]
    /\ ffilter' = [ffilter EXCEPT ![k] = build_pinecone_filter(fctx[k], fintent[k])]
    /\ UNCHANGED <<processVars, unitVars, fctx, fintent, requestVars, surfaceVars>>

InitFilterVars ==
    /\ fctx \in [Slots -> FilterContexts]
    /\ fintent \in [Slots -> FilterIntents]
    /\ fbuilt = [k \in Slots |-> FALSE]
    /\ ffilter = [k \in Slots |-> NoFilter]

IdleFilterVars ==
    /\ fctx = [k \in Slots |-> UserContext("user-1", "comp-a", <<>>)]
    /\ fintent = [k \in Slots |-> "assigned_knowledge"]
    /\ fbuilt = [k \in Slots |-> FALSE]
    /\ ffilter = [k \in Slots |-> NoFilter]

(***************************************************************************)
(* Text.  A text is a sequence of pieces: a piece is either the whitespace *)
(* piece " " or a piece without whitespace.  str.strip() drops the leading *)
(* and trailing whitespace pieces; "".join concatenates.                   *)
(***************************************************************************)
WS == " "

INSUFFICIENT_CONTEXT == <<"INSUFFICIENT_", "CONTEXT">>

OUT_OF_SCOPE_ANSWER == <<"I am a specialized search engine for your assigned BigSpring materials.">>

TIER3_ANSWER == <<"I couldn't find any specific information in your assigned training materials.">>

RECURSIVE lstrip(_)
lstrip(t) == IF Len(t) > 0 /\ Head(t) = WS THEN lstrip(Tail(t)) ELSE t

RECURSIVE rstrip(_)
rstrip(t) ==
    IF Len(t) > 0 /\ t[Len(t)] = WS THEN rstrip(SubSeq(t, 1, Len(t) - 1)) ELSE t

strip(t) == rstrip(lstrip(t))

RECURSIVE join(_)
join(tokens) == IF tokens = <<>> THEN <<>> ELSE Head(tokens) \o join(Tail(tokens))

\* str.lower() on the words the model uses.
Lower(w) ==
    CASE w = "GRID" -> "grid"
      [] w = "Grid" -> "grid"
      [] w = "Master" -> "master"
      [] w = "Amproxin" -> "amproxin"
      [] w = "In_Progress" -> "in_progress"
      [] w = "Assigned" -> "assigned"
      [] w = "COMPLETED" -> "completed"
      [] OTHER -> w

(***************************************************************************)
(* Intent classification (backend/pipeline/intent_classifier.py).  The     *)
(* provider's reply is a text: a sequence of pieces, each a run of         *)
(* whitespace, a markdown fence, a language tag, prose, or one complete    *)
(* JSON document.  Confidence is in hundredths.                            *)
(***************************************************************************)
IntentResult(intent, confidence, reasoning) ==
    [intent |-> intent, confidence |-> confidence, reasoning |-> reasoning]

NoIntent == IntentResult(NoValue, 0, NoValue)

MissingConfidence == -1
DefaultConfidence == 90
FallbackConfidence == 50

Fence == "<fence>"            \* a markdown fence, three backquotes

\* What json.loads makes of a JSON document: whether it is an object, its
\* "intent" member (NoValue when the key is missing), its "confidence" member
\* (MissingConfidence when the key is missing) and whether float() accepts it.
JsonValue(is_object, intent, confidence, confidence_is_number) ==
    [is_object |-> is_object, intent |-> intent, confidence |-> confidence,
     confidence_is_number |-> confidence_is_number]

JsonObject(intent, confidence) == JsonValue(TRUE, intent, confidence, TRUE)

\* The JSON documents of the model, by their text.
ValidDocument(intent) == "{intent:" \o intent \o ",confidence:0.95}"

JsonDocuments ==
    [d \in {ValidDocument(i) : i \in KnownIntents} |->
        JsonObject(CHOOSE i \in KnownIntents : ValidDocument(i) = d, 95)] @@
    [d \in {"{confidence:0.95}"} |-> JsonObject(NoValue, 95)] @@
    [d \in {"{intent:not_an_intent,confidence:0.95}"} |-> JsonObject("not_an_intent", 95)] @@
    [d \in {"{intent:combined}"} |-> JsonObject("combined", MissingConfidence)] @@
    [d \in {"{intent:combined,confidence:high}"} |-> JsonValue(TRUE, "combined", 0, FALSE)] @@
    [d \in {"{intent:combined,confidence:1.5}"} |-> JsonObject("combined", 150)] @@
    [d \in {"[combined]"} |-> JsonValue(FALSE, NoValue, MissingConfidence, TRUE)]

\* json.loads(raw): raw has to be one JSON document and nothing else.
json_loads(raw) ==
    IF Len(raw) = 1 /\ raw[1] \in DOMAIN JsonDocuments
    THEN [ok |-> TRUE, value |-> JsonDocuments[raw[1]]]
    ELSE [ok |-> FALSE, value |-> JsonValue(FALSE, NoValue, MissingConfidence, TRUE)]

\* raw.split(fence)[1] for a raw that starts with a fence: the pieces between
\* the first fence and the next one (or the end).
RECURSIVE UpToFence(_)
UpToFence(text) ==
    IF text = <<>> \/ Head(text) = Fence THEN <<>>
    ELSE <<Head(text)>> \o UpToFence(Tail(text))

ClassifierReply(raises, content) == [raises |-> raises, content |-> content]

classify_intent_no_validation(reply) ==
    LET parsed == json_loads(reply.content)
    IN  IF parsed.ok /\ parsed.value.is_object /\ parsed.value.intent # NoValue
        THEN IntentResult(parsed.value.intent, parsed.value.confidence, "provider")
        ELSE IntentResult("assigned_knowledge", FallbackConfidence,
                          "Classification failed, defaulting to knowledge search.")

classify_intent(reply) ==
    LET stripped == strip(reply.content)
        unfenced == IF stripped # <<>> /\ Head(stripped) = Fence
                    THEN LET inner == UpToFence(Tail(stripped))
                         IN  IF inner # <<>> /\ Head(inner) = "json"
                             THEN Tail(inner) ELSE inner
                    ELSE stripped
        parsed == json_loads(strip(unfenced))
    IN  IF /\ parsed.ok
           /\ parsed.value.is_object
           /\ parsed.value.intent # NoValue
           /\ parsed.value.confidence_is_number
           /\ parsed.value.intent \in KnownIntents
        THEN IntentResult(parsed.value.intent,
                          IF parsed.value.confidence = MissingConfidence
                          THEN DefaultConfidence ELSE parsed.value.confidence,
                          "provider")
        ELSE IntentResult("assigned_knowledge", FallbackConfidence,
                          "Classification failed, defaulting to knowledge search.")

(***************************************************************************)
(* Mode override and play-id extraction (orchestrator.py).                 *)
(***************************************************************************)
\* Mutant of _apply_mode: the performance override is lost.
_apply_mode_knowledge_only(intent_res, m) ==
    IF m = "knowledge" THEN [intent_res EXCEPT !.intent = "assigned_knowledge"]
    ELSE intent_res

_apply_mode(intent_res, m) ==
    IF m = "knowledge" THEN [intent_res EXCEPT !.intent = "assigned_knowledge"]
    ELSE IF m = "performance" THEN [intent_res EXCEPT !.intent = "performance_history"]
    ELSE intent_res

\* Mutant of _play_id_set_from_chunks: a chunk without play id is not skipped.
_play_id_set_from_chunks_unfiltered(cs) == {cs[i].play_id : i \in 1..Len(cs)}

_play_id_set_from_chunks(cs) ==
    {cs[i].play_id : i \in {j \in 1..Len(cs) : cs[j].play_id # NoValue /\ cs[j].play_id # ""}}

(***************************************************************************)
(* Retrieval (retriever.py, retrieve_chunks).  The environment of one call *)
(* is whether the embedding call fails, whether the index query fails, and *)
(* the matches the index returns; scores are in hundredths.                *)
(***************************************************************************)
similarity_threshold == 35

Match(asset_id, score, metadata) ==
    [asset_id |-> asset_id, score |-> score, metadata |-> metadata]

SourceChunk(asset_id, play_id, score) ==
    [asset_id |-> asset_id, play_id |-> play_id, score |-> score]

RetrievalEnv(embed_fails, index_fails, matches) ==
    [embed_fails |-> embed_fails, index_fails |-> index_fails, matches |-> matches]

RetrievalResult(raised, cs, embed_calls, index_calls) ==
    [raised |-> raised, chunks |-> cs, embed_calls |-> embed_calls,
     index_calls |-> index_calls]

\* Mutant of threshold_chunks: a score equal to the threshold is dropped too.
RECURSIVE threshold_chunks_strict(_)
threshold_chunks_strict(matches) ==
    IF matches = <<>> THEN <<>>
    ELSE LET match == Head(matches)
         IN  IF match.score <= similarity_threshold
             THEN threshold_chunks_strict(Tail(matches))
             ELSE <<SourceChunk(match.asset_id, match.metadata.play_id, match.score)>>
                  \o threshold_chunks_strict(Tail(matches))

RECURSIVE threshold_chunks(_)
threshold_chunks(matches) ==
    IF matches = <<>> THEN <<>>
    ELSE LET match == Head(matches)
         IN  IF match.score < similarity_threshold
             THEN threshold_chunks(Tail(matches))
             ELSE <<SourceChunk(match.asset_id, match.metadata.play_id, match.score)>>
                  \o threshold_chunks(Tail(matches))

\* Mutant of retrieve_chunks: there is no short-circuit.
retrieve_chunks_never_short(ctx, intent, env) ==
    IF env.embed_fails THEN RetrievalResult(TRUE, <<>>, 1, 0)
    ELSE IF env.index_fails THEN RetrievalResult(TRUE, <<>>, 1, 1)
    ELSE RetrievalResult(FALSE, threshold_chunks(env.matches), 1, 1)

\* Mutant of retrieve_chunks: the short-circuit is taken for every intent.
retrieve_chunks_always_short(ctx, intent, env) ==
    IF Len(assigned_play_ids(ctx)) = 0
    THEN RetrievalResult(FALSE, <<>>, 0, 0)
    ELSE IF env.embed_fails THEN RetrievalResult(TRUE, <<>>, 1, 0)
    ELSE IF env.index_fails THEN RetrievalResult(TRUE, <<>>, 1, 1)
    ELSE RetrievalResult(FALSE, threshold_chunks(env.matches), 1, 1)

\* Mutant of retrieve_chunks: a provider failure is swallowed as "no results".
retrieve_chunks_swallow(ctx, intent, env) ==
    IF Len(assigned_play_ids(ctx)) = 0 /\ intent # "performance_history"
    THEN RetrievalResult(FALSE, <<>>, 0, 0)
    ELSE IF env.embed_fails THEN RetrievalResult(FALSE, <<>>, 1, 0)
    ELSE IF env.index_fails THEN RetrievalResult(FALSE, <<>>, 1, 1)
    ELSE RetrievalResult(FALSE, threshold_chunks(env.matches), 1, 1)

retrieve_chunks(ctx, intent, env) ==
    IF Len(assigned_play_ids(ctx)) = 0 /\ intent # "performance_history"
    THEN RetrievalResult(FALSE, <<>>, 0, 0)
    ELSE IF env.embed_fails THEN RetrievalResult(TRUE, <<>>, 1, 0)
    ELSE IF env.index_fails THEN RetrievalResult(TRUE, <<>>, 1, 1)
    ELSE RetrievalResult(FALSE, threshold_chunks(env.matches), 1, 1)

(***************************************************************************)
(* Answer generation (generator.py).  The environment of one call is the   *)
(* sequence of chunk contents the provider produces and whether the call   *)
(* fails (after having streamed them); the blocking call's content is the  *)
(* concatenation of the chunk contents.                                    *)
(***************************************************************************)
GenerationEnv(fails, contents) == [fails |-> fails, contents |-> contents]

\* generate_grounded_answer: (answer, is_sufficient)
generate_grounded_answer(env) ==
    LET answer == strip(join(env.contents))
    IN  [answer |-> answer, is_sufficient |-> answer # INSUFFICIENT_CONTEXT]

generate_general_answer(env) == strip(join(env.contents))

\* stream_grounded_answer / stream_general_answer: the content of the k-th
\* provider chunk is yielded unless it is empty.
stream_yields(content) == content # <<>>

\* The tokens stream_grounded_answer yields when consumed to its end.
stream_grounded_answer(env) == SelectSeq(env.contents, stream_yields)

\* Mutant of buffer_is_insufficient: the accumulated text is not trimmed.
buffer_is_insufficient_untrimmed(buffer) == join(buffer) = INSUFFICIENT_CONTEXT

\* run_stream's test of the buffered tokens.
buffer_is_insufficient(buffer) ==
    LET accumulated == join(buffer)
    IN  strip(accumulated) = INSUFFICIENT_CONTEXT

(***************************************************************************)
(* Recommender (backend/pipeline/recommender.py).  A query and a play      *)
(* title are sequences of words (what str.split() returns).                *)
(***************************************************************************)
max_recs == 3

_status_rank(status) ==
    LET st == Lower(status)
    IN  CASE st = "in-progress" -> 0
          [] st = "in_progress" -> 0
          [] st = "assigned" -> 1
          [] st = "completed" -> 2
          [] OTHER -> 3

_query_relevance_score(q, play_title) ==
    LET query_words == {Lower(q[i]) : i \in 1..Len(q)}
        title_words == {Lower(play_title[i]) : i \in 1..Len(play_title)}
    IN  Cardinality(query_words \cap title_words)

\* Mutant of sort_key: the status rank comes before the relevance.
sort_key_rank_first(q, ap) ==
    IF q # <<>>
    THEN <<_status_rank(ap.status), 0 - _query_relevance_score(q, ap.play_title)>>
    ELSE <<0, _status_rank(ap.status)>>

\* The sort key of a candidate: (-relevance, status rank) when a query is
\* given, the status rank alone (first component constant) otherwise.
sort_key(q, ap) ==
    IF q # <<>>
    THEN <<0 - _query_relevance_score(q, ap.play_title), _status_rank(ap.status)>>
    ELSE <<0, _status_rank(ap.status)>>

key_less(a, b) == a[1] < b[1] \/ (a[1] = b[1] /\ a[2] < b[2])

\* list.sort(key=...) is stable: an element goes after every element whose
\* key is not greater than its own.
RECURSIVE insert_sorted(_, _, _)
insert_sorted(q, ap, sorted) ==
    IF sorted = <<>> THEN <<ap>>
    ELSE IF key_less(sort_key(q, ap), sort_key(q, Head(sorted)))
         THEN <<ap>> \o sorted
         ELSE <<Head(sorted)>> \o insert_sorted(q, ap, Tail(sorted))

RECURSIVE stable_sort(_, _)
stable_sort(q, candidates) ==
    IF candidates = <<>> THEN <<>>
    ELSE insert_sorted(q, candidates[Len(candidates)],
                       stable_sort(q, SubSeq(candidates, 1, Len(candidates) - 1)))

RECURSIVE not_retrieved(_, _)
not_retrieved(assigned_plays, retrieved_play_ids) ==
    IF assigned_plays = <<>> THEN <<>>
    ELSE IF Head(assigned_plays).play_id \in retrieved_play_ids
         THEN not_retrieved(Tail(assigned_plays), retrieved_play_ids)
         ELSE <<Head(assigned_plays)>>
              \o not_retrieved(Tail(assigned_plays), retrieved_play_ids)

\* DataStore.get_reps_for_play: the reps of a play, in catalog order.
Rep(id, prompt_title, prompt_type) ==
    [id |-> id, prompt_title |-> prompt_title, prompt_type |-> prompt_type]

get_reps_for_play(play_id) ==
    CASE play_id = "play-1" -> <<Rep("rep-1", "Pitch", "record"), Rep("rep-2", "Intro", "watch")>>
      [] OTHER -> <<>>

next_rep(reps) ==
    LET watch == {i \in 1..Len(reps) : reps[i].prompt_type = "watch"}
    IN  IF watch # {}
        THEN reps[CHOOSE i \in watch : \A j \in watch : i <= j]
        ELSE IF reps # <<>> THEN reps[1]
        ELSE Rep(NoValue, NoValue, NoValue)

reason_for(q, ap) ==
    IF _query_relevance_score(q, ap.play_title) > 0 THEN "covers content related to your query"
    ELSE IF ap.status \in {"in_progress", "in-progress"} THEN "continue where you left off"
    ELSE IF ap.status = "assigned" THEN "ready to start"
    ELSE "review it to reinforce your knowledge"

Recommendation(q, ap) ==
    LET rep == next_rep(get_reps_for_play(ap.play_id))
    IN  [play_id |-> ap.play_id, play_title |-> ap.play_title, rep_id |-> rep.id,
         rep_title |-> rep.prompt_title, status |-> ap.status,
         reason |-> reason_for(q, ap)]

\* Mutant of slice_to: the candidates are not cut.
slice_to_unbounded(candidates, n) == candidates

\* candidates[:n], a Python slice: the first n elements, all of them when
\* there are fewer, and all but the last -n when n is negative.
slice_to(candidates, n) ==
    LET stop == IF n >= 0
                THEN (IF n < Len(candidates) THEN n ELSE Len(candidates))
                ELSE (IF Len(candidates) + n > 0 THEN Len(candidates) + n ELSE 0)
    IN  SubSeq(candidates, 1, stop)

\* get_recommendations called with the max_recs argument given.
get_recommendations_max(ctx, retrieved_play_ids, q, n) ==
    LET candidates == stable_sort(q, not_retrieved(ctx.assigned_plays, retrieved_play_ids))
        first == slice_to(candidates, n)
    IN  [i \in 1..Len(first) |-> Recommendation(q, first[i])]

\* get_recommendations as the orchestrator calls it: max_recs at its default.
get_recommendations(ctx, retrieved_play_ids, q) ==
    get_recommendations_max(ctx, retrieved_play_ids, q, max_recs)

(***************************************************************************)
(* The orchestrator (backend/pipeline/orchestrator.py): one request, with  *)
(* the same query, mode, user context and provider behaviour, served by    *)
(* Orchestrator.run ("run") and then replayed on Orchestrator.run_stream    *)
(* ("stream").  The two calls share no state but the providers' behaviour. *)
(***************************************************************************)
Surfaces == {"run", "stream"}

SearchResponse(intent, response_tier, answer, sources, recommendations) ==
    [intent |-> intent, response_tier |-> response_tier, answer |-> answer,
     sources |-> sources, recommendations |-> recommendations]

NoResponse == SearchResponse(NoIntent, NoValue, <<>>, <<>>, <<>>)

\* The SSE frames of run_stream; a frame kind leaves the members it does not
\* carry at their empty value.
MetaFrame(intent, response_tier, sources, recommendations) ==
    [type |-> "meta", intent |-> intent, response_tier |-> response_tier,
     sources |-> sources, recommendations |-> recommendations,
     content |-> <<>>, is_insufficient |-> FALSE]

ChunkFrame(content) ==
    [type |-> "chunk", intent |-> NoIntent, response_tier |-> NoValue,
     sources |-> <<>>, recommendations |-> <<>>,
     content |-> content, is_insufficient |-> FALSE]

DoneFrame(is_insufficient) ==
    [type |-> "done", intent |-> NoIntent, response_tier |-> NoValue,
     sources |-> <<>>, recommendations |-> <<>>,
     content |-> <<>>, is_insufficient |-> is_insufficient]

ErrorFrame ==
    [type |-> "error", intent |-> NoIntent, response_tier |-> NoValue,
     sources |-> <<>>, recommendations |-> <<>>,
     content |-> <<>>, is_insufficient |-> FALSE]

NoCalls == [classify |-> 0, embed |-> 0, index |-> 0, generate |-> 0]

(***************************************************************************)
(* The inputs and the provider behaviours the model draws from.            *)
(***************************************************************************)
Modes == {NoValue, "auto", "knowledge", "performance"}

Queries == {<<>>, <<"GRID">>}

RequestContexts ==
    {UserContext("user-1", "comp-a", <<>>),
     UserContext("user-1", "comp-a",
                 <<AssignedPlay("play-1", <<"Grid", "Master">>, "completed"),
                   AssignedPlay("play-2", <<"Amproxin">>, "in_progress")>>)}

ClassifierReplies ==
    {ClassifierReply(TRUE, <<>>),
     ClassifierReply(FALSE, <<"Sorry,">>),
     ClassifierReply(FALSE, <<"{confidence:0.95}">>),
     ClassifierReply(FALSE, <<"{intent:not_an_intent,confidence:0.95}">>)}
    \cup {ClassifierReply(FALSE, <<ValidDocument(i)>>) : i \in KnownIntents}

\* What the index holds for the request's tenant and for another one.
MatchPool ==
    {Match("asset-1", 40, [company_id |-> "comp-a", content_type |-> "knowledge",
                           play_id |-> "play-1", user_id |-> NoValue]),
     Match("asset-2", 30, [company_id |-> "comp-a", content_type |-> "knowledge",
                           play_id |-> "play-2", user_id |-> NoValue]),
     Match("asset-3", 35, [company_id |-> "comp-a", content_type |-> "submission",
                           play_id |-> NoValue, user_id |-> "user-1"]),
     Match("asset-4", 40, [company_id |-> "comp-b", content_type |-> "knowledge",
                           play_id |-> "play-1", user_id |-> NoValue]),
     Match("asset-5", 40, [company_id |-> "comp-a", content_type |-> "submission",
                           play_id |-> "play-1", user_id |-> "user-2"])}

\* index.query(filter=...) returns only matches whose metadata passes the filter.
RetrievalEnvs(ctx, intent) ==
    LET passing == {m \in MatchPool : Satisfies(m.metadata, build_pinecone_filter(ctx, intent))}
    IN  {RetrievalEnv(TRUE, FALSE, <<>>), RetrievalEnv(FALSE, TRUE, <<>>)}
        \cup {RetrievalEnv(FALSE, FALSE, ms) : ms \in SeqsUpTo(passing, MaxMatches)}

ProviderContents == {INSUFFICIENT_CONTEXT, <<WS>>, <<"answer">>, <<>>}

GenerationEnvs ==
    {GenerationEnv(f, cs) : f \in BOOLEAN, cs \in SeqsUpTo(ProviderContents, MaxTokens)}

IdleRetrievalEnv == RetrievalEnv(FALSE, FALSE, <<>>)
IdleGenerationEnv == GenerationEnv(FALSE, <<>>)

\* The providers answer a repeated call of the same request the same way:
\* the first call fixes the behaviour, later calls observe it.
RetrievalChoices(intent) ==
    IF provider.retr_set THEN {provider.retr} ELSE RetrievalEnvs(user_context, intent)

GenerationChoices ==
    IF provider.gen_set THEN {provider.gen} ELSE GenerationEnvs

InitRequestVars ==
    /\ query \in Queries
    /\ mode \in Modes
    /\ user_context \in RequestContexts
    /\ \E reply \in ClassifierReplies :
          provider = [classifier |-> reply,
                      retr_set |-> FALSE, retr |-> IdleRetrievalEnv,
                      gen_set |-> FALSE, gen |-> IdleGenerationEnv]
    /\ pc = [s \in Surfaces |-> IF s = "run" THEN "r_classify" ELSE "s_classify"]
    /\ intent_result = [s \in Surfaces |-> NoIntent]
    /\ chunks = [s \in Surfaces |-> <<>>]
    /\ response = NoResponse
    /\ frames = <<>>
    /\ token_buffer = <<>>
    /\ pos = 0
    /\ exc = [s \in Surfaces |-> FALSE]
    /\ calls = [s \in Surfaces |-> NoCalls]

IdleRequestVars ==
    /\ query = <<>>
    /\ mode = NoValue
    /\ user_context = UserContext("user-1", "comp-a", <<>>)
    /\ provider = [classifier |-> ClassifierReply(FALSE, <<>>),
                   retr_set |-> FALSE, retr |-> IdleRetrievalEnv,
                   gen_set |-> FALSE, gen |-> IdleGenerationEnv]
    /\ pc = [s \in Surfaces |-> "idle"]
    /\ intent_result = [s \in Surfaces |-> NoIntent]
    /\ chunks = [s \in Surfaces |-> <<>>]
    /\ response = NoResponse
    /\ frames = <<>>
    /\ token_buffer = <<>>
    /\ pos = 0
    /\ exc = [s \in Surfaces |-> FALSE]
    /\ calls = [s \in Surfaces |-> NoCalls]

(***************************************************************************)
(* The results the two surfaces build: the SearchResponse values returned  *)
(* by run and the meta frames yielded by run_stream, per tier.             *)
(***************************************************************************)
Tier1Response(ir) == SearchResponse(ir, "tier1", OUT_OF_SCOPE_ANSWER, <<>>, <<>>)

Tier2Response(ir, answer) ==
    SearchResponse(ir, "tier2", answer, <<>>, get_recommendations(user_context, {}, query))

\* Mutant of Tier3Response: the not-found result is labelled grounded.
Tier3Response_grounded(ir) ==
    SearchResponse(ir, "grounded", TIER3_ANSWER, <<>>,
                   get_recommendations(user_context, {}, query))

Tier3Response(ir) ==
    SearchResponse(ir, "tier3", TIER3_ANSWER, <<>>,
                   get_recommendations(user_context, {}, query))

\* Mutant of GroundedResponse: nothing is excluded from the recommendations.
GroundedResponse_empty_exclusion(ir, answer, cs) ==
    SearchResponse(ir, "grounded", answer, cs,
                   get_recommendations(user_context, {}, query))

\* Mutant of GroundedResponse: only the best chunk is reported as a source.
GroundedResponse_first_source(ir, answer, cs) ==
    SearchResponse(ir, "grounded", answer, <<cs[1]>>,
                   get_recommendations(user_context, _play_id_set_from_chunks(cs), query))

GroundedResponse(ir, answer, cs) ==
    SearchResponse(ir, "grounded", answer, cs,
                   get_recommendations(user_context, _play_id_set_from_chunks(cs), query))

\* Mutant of Tier1Meta: the refusal carries recommendations.
Tier1Meta_with_recommendations(ir) ==
    MetaFrame(ir, "tier1", <<>>, get_recommendations(user_context, {}, query))

Tier1Meta(ir) == MetaFrame(ir, "tier1", <<>>, <<>>)

Tier2Meta(ir) ==
    MetaFrame(ir, "tier2", <<>>, get_recommendations(user_context, {}, query))

Tier3Meta(ir) ==
    MetaFrame(ir, "tier3", <<>>, get_recommendations(user_context, {}, query))

\* Mutant of GroundedMeta: recommendations against an empty exclusion set.
GroundedMeta_empty_exclusion(ir, cs) ==
    MetaFrame(ir, "grounded", cs, get_recommendations(user_context, {}, query))

GroundedMeta(ir, cs) ==
    MetaFrame(ir, "grounded", cs,
              get_recommendations(user_context, _play_id_set_from_chunks(cs), query))

Called(s, what) == calls' = [calls EXCEPT ![s][what] = @ + 1]

Goto(s, label) == pc' = [pc EXCEPT ![s] = label]

Raise(s) == exc' = [exc EXCEPT ![s] = TRUE]

(***************************************************************************)
(* Orchestrator.run.  The coroutine is cut at its provider calls.          *)
(***************************************************************************)
\* classify_intent, _apply_mode, and the tier1 return.
RunClassify ==
    /\ pc["run"] = "r_classify"
    /\ Called("run", "classify")
    /\ IF provider.classifier.raises
       THEN /\ Raise("run")
            /\ Goto("run", "r_raised")
            /\ UNCHANGED <<intent_result, response>>
       ELSE LET ir == _apply_mode(classify_intent(provider.classifier), mode)
            IN  /\ intent_result' = [intent_result EXCEPT !["run"] = ir]
                /\ UNCHANGED exc
                /\ IF ir.intent = "out_of_scope"
                   THEN /\ response' = Tier1Response(ir)
                        /\ Goto("run", "r_returned")
                   ELSE /\ UNCHANGED response
                        /\ Goto("run", IF ir.intent = "general_professional"
                                       THEN "r_general" ELSE "r_retrieve")
    /\ UNCHANGED <<processVars, unitVars, filterVars, query, mode, user_context, provider, chunks, frames,
                   token_buffer, pos>>

\* generate_general_answer and the tier2 return.
RunGeneral ==
    /\ pc["run"] = "r_general"
    /\ Called("run", "generate")
    /\ \E env \in GenerationChoices :
          /\ provider' = [provider EXCEPT !.gen_set = TRUE, !.gen = env]
          /\ IF env.fails
             THEN /\ Raise("run")
                  /\ Goto("run", "r_raised")
                  /\ UNCHANGED response
             ELSE /\ response' = Tier2Response(intent_result["run"],
                                               generate_general_answer(env))
                  /\ Goto("run", "r_returned")
                  /\ UNCHANGED exc
    /\ UNCHANGED <<processVars, unitVars, filterVars, query, mode, user_context, intent_result, chunks, frames,
                   token_buffer, pos>>

\* retrieve_chunks and the tier3 return on an empty result.
RunRetrieve ==
    /\ pc["run"] = "r_retrieve"
    /\ \E env \in RetrievalChoices(intent_result["run"].intent) :
          LET r == retrieve_chunks(user_context, intent_result["run"].intent, env)
          IN  /\ calls' = [calls EXCEPT !["run"].embed = @ + r.embed_calls,
                                        !["run"].index = @ + r.index_calls]
              /\ provider' = IF r.embed_calls > 0
                             THEN [provider EXCEPT !.retr_set = TRUE, !.retr = env]
                             ELSE provider
              /\ IF r.raised
                 THEN /\ Raise("run")
                      /\ Goto("run", "r_raised")
                      /\ UNCHANGED <<chunks, response>>
                 ELSE /\ chunks' = [chunks EXCEPT !["run"] = r.chunks]
                      /\ UNCHANGED exc
                      /\ IF r.chunks = <<>>
                         THEN /\ response' = Tier3Response(intent_result["run"])
                              /\ Goto("run", "r_returned")
                         ELSE /\ UNCHANGED response
                              /\ Goto("run", "r_generate")
    /\ UNCHANGED <<processVars, unitVars, filterVars, query, mode, user_context, intent_result, frames,
                   token_buffer, pos>>

\* generate_grounded_answer and the tier3 / grounded return.
RunGenerate ==
    /\ pc["run"] = "r_generate"
    /\ Called("run", "generate")
    /\ \E env \in GenerationChoices :
          /\ provider' = [provider EXCEPT !.gen_set = TRUE, !.gen = env]
          /\ IF env.fails
             THEN /\ Raise("run")
                  /\ Goto("run", "r_raised")
                  /\ UNCHANGED response
             ELSE LET g == generate_grounded_answer(env)
                  IN  /\ response' =
                            IF ~g.is_sufficient
                            THEN Tier3Response(intent_result["run"])
                            ELSE GroundedResponse(intent_result["run"], g.answer,
                                                  chunks["run"])
                      /\ Goto("run", "r_returned")
                      /\ UNCHANGED exc
    /\ UNCHANGED <<processVars, unitVars, filterVars, query, mode, user_context, intent_result, chunks, frames,
                   token_buffer, pos>>

(***************************************************************************)
(* Orchestrator.run_stream.  The async generator is cut at its suspension  *)
(* points: an action runs from one await / yield to the next, and a frame  *)
(* is in frames once its yield is reached.  An exception raised inside the *)
(* try block reaches the except clause, which yields the error frame.      *)
(***************************************************************************)
\* Mutant of Emit: the frame is put in front of the frames already sent.
EmitFirst(frame) == frames' = <<frame>> \o frames

Emit(frame) == frames' = Append(frames, frame)

\* await to_thread(classify_intent), _apply_mode, then up to the first yield
\* (tier1 meta, tier2 meta) or to the retrieval await.
StreamClassify ==
    /\ pc["stream"] = "s_classify"
    /\ pc["run"] \in {"r_returned", "r_raised"}
    /\ Called("stream", "classify")
    /\ IF provider.classifier.raises
       THEN /\ Raise("stream")
            /\ Emit(ErrorFrame)
            /\ Goto("stream", "s_error")
            /\ UNCHANGED intent_result
       ELSE LET ir == _apply_mode(classify_intent(provider.classifier), mode)
            IN  /\ intent_result' = [intent_result EXCEPT !["stream"] = ir]
                /\ UNCHANGED exc
                /\ IF ir.intent = "out_of_scope"
                   THEN /\ Emit(Tier1Meta(ir))
                        /\ Goto("stream", "s_t1_meta")
                   ELSE IF ir.intent = "general_professional"
                   THEN /\ Emit(Tier2Meta(ir))
                        /\ Goto("stream", "s_t2_meta")
                   ELSE /\ UNCHANGED frames
                        /\ Goto("stream", "s_retrieve")
    /\ UNCHANGED <<processVars, unitVars, filterVars, requestVars, chunks, response, token_buffer, pos>>

StreamT1Chunk ==
    /\ pc["stream"] = "s_t1_meta"
    /\ Emit(ChunkFrame(OUT_OF_SCOPE_ANSWER))
    /\ Goto("stream", "s_t1_chunk")
    /\ UNCHANGED <<processVars, unitVars, filterVars, requestVars, intent_result, chunks, response,
                   token_buffer, pos, exc, calls>>

StreamT1Done ==
    /\ pc["stream"] = "s_t1_chunk"
    /\ Emit(DoneFrame(FALSE))
    /\ Goto("stream", "s_done")
    /\ UNCHANGED <<processVars, unitVars, filterVars, requestVars, intent_result, chunks, response,
                   token_buffer, pos, exc, calls>>

\* async for token in stream_general_answer(query): one provider chunk, the
\* provider's failure, or the end of its stream.
StreamT2Next ==
    /\ pc["stream"] \in {"s_t2_meta", "s_t2_stream"}
    /\ calls' = IF pc["stream"] = "s_t2_meta"
                THEN [calls EXCEPT !["stream"].generate = @ + 1] ELSE calls
    /\ \E env \in GenerationChoices :
          /\ provider' = [provider EXCEPT !.gen_set = TRUE, !.gen = env]
          /\ IF pos < Len(env.contents)
             THEN /\ pos' = pos + 1
                  /\ IF stream_yields(env.contents[pos + 1])
                     THEN Emit(ChunkFrame(env.contents[pos + 1]))
                     ELSE UNCHANGED frames
                  /\ Goto("stream", "s_t2_stream")
                  /\ UNCHANGED exc
             ELSE IF env.fails
             THEN /\ Raise("stream")
                  /\ Emit(ErrorFrame)
                  /\ Goto("stream", "s_error")
                  /\ UNCHANGED pos
             ELSE /\ Emit(DoneFrame(FALSE))
                  /\ Goto("stream", "s_done")
                  /\ UNCHANGED <<pos, exc>>
    /\ UNCHANGED <<processVars, unitVars, filterVars, query, mode, user_context, intent_result, chunks,
                   response, token_buffer>>

\* await to_thread(retrieve_chunks), then up to the tier3 / grounded meta yield.
StreamRetrieve ==
    /\ pc["stream"] = "s_retrieve"
    /\ \E env \in RetrievalChoices(intent_result["stream"].intent) :
          LET r == retrieve_chunks(user_context, intent_result["stream"].intent, env)
          IN  /\ calls' = [calls EXCEPT !["stream"].embed = @ + r.embed_calls,
                                        !["stream"].index = @ + r.index_calls]
              /\ provider' = IF r.embed_calls > 0
                             THEN [provider EXCEPT !.retr_set = TRUE, !.retr = env]
                             ELSE provider
              /\ IF r.raised
                 THEN /\ Raise("stream")
                      /\ Emit(ErrorFrame)
                      /\ Goto("stream", "s_error")
                      /\ UNCHANGED chunks
                 ELSE /\ chunks' = [chunks EXCEPT !["stream"] = r.chunks]
                      /\ UNCHANGED exc
                      /\ IF r.chunks = <<>>
                         THEN /\ Emit(Tier3Meta(intent_result["stream"]))
                              /\ Goto("stream", "s_t3_meta")
                         ELSE /\ Emit(GroundedMeta(intent_result["stream"], r.chunks))
                              /\ Goto("stream", "s_g_meta")
    /\ UNCHANGED <<processVars, unitVars, filterVars, query, mode, user_context, intent_result, response,
                   token_buffer, pos>>

StreamT3Chunk ==
    /\ pc["stream"] = "s_t3_meta"
    /\ Emit(ChunkFrame(TIER3_ANSWER))
    /\ Goto("stream", "s_t3_chunk")
    /\ UNCHANGED <<processVars, unitVars, filterVars, requestVars, intent_result, chunks, response,
                   token_buffer, pos, exc, calls>>

StreamT3Done ==
    /\ pc["stream"] = "s_t3_chunk"
    /\ Emit(DoneFrame(FALSE))
    /\ Goto("stream", "s_done")
    /\ UNCHANGED <<processVars, unitVars, filterVars, requestVars, intent_result, chunks, response,
                   token_buffer, pos, exc, calls>>

\* async for token in stream_grounded_answer(...): token_buffer.append(token);
\* at the end of the provider's stream, the sentinel test and the first yield
\* after it (the fallback chunk, the first buffered token, or done).
StreamGBuffer ==
    /\ pc["stream"] \in {"s_g_meta", "s_g_buffer"}
    /\ calls' = IF pc["stream"] = "s_g_meta"
                THEN [calls EXCEPT !["stream"].generate = @ + 1] ELSE calls
    /\ \E env \in GenerationChoices :
          /\ provider' = [provider EXCEPT !.gen_set = TRUE, !.gen = env]
          /\ IF pos < Len(env.contents)
             THEN /\ pos' = pos + 1
                  /\ token_buffer' = IF stream_yields(env.contents[pos + 1])
                                     THEN Append(token_buffer, env.contents[pos + 1])
                                     ELSE token_buffer
                  /\ Goto("stream", "s_g_buffer")
                  /\ UNCHANGED <<frames, exc>>
             ELSE IF env.fails
             THEN /\ Raise("stream")
                  /\ Emit(ErrorFrame)
                  /\ Goto("stream", "s_error")
                  /\ UNCHANGED <<pos, token_buffer>>
             ELSE LET is_insufficient == buffer_is_insufficient(token_buffer)
                  IN  /\ UNCHANGED <<token_buffer, exc>>
                      /\ IF is_insufficient
                         THEN /\ Emit(ChunkFrame(TIER3_ANSWER))
                              /\ Goto("stream", "s_g_fallback")
                              /\ UNCHANGED pos
                         ELSE IF token_buffer # <<>>
                         THEN /\ Emit(ChunkFrame(token_buffer[1]))
                              /\ Goto("stream", "s_g_relay")
                              /\ pos' = 1
                         ELSE /\ Emit(DoneFrame(is_insufficient))
                              /\ Goto("stream", "s_done")
                              /\ UNCHANGED pos
    /\ UNCHANGED <<processVars, unitVars, filterVars, query, mode, user_context, intent_result, chunks,
                   response>>

\* Mutant of StreamGRelay: the token relayed is the one before the next one.
StreamGRelay_previous_token ==
    /\ pc["stream"] = "s_g_relay"
    /\ IF pos < Len(token_buffer)
       THEN /\ Emit(ChunkFrame(token_buffer[pos]))
            /\ pos' = pos + 1
            /\ UNCHANGED pc
       ELSE /\ Emit(DoneFrame(FALSE))
            /\ Goto("stream", "s_done")
            /\ UNCHANGED pos
    /\ UNCHANGED <<processVars, unitVars, filterVars, requestVars, intent_result, chunks, response,
                   token_buffer, exc, calls>>

\* for token in token_buffer: yield chunk; then yield done.
StreamGRelay ==
    /\ pc["stream"] = "s_g_relay"
    /\ IF pos < Len(token_buffer)
       THEN /\ Emit(ChunkFrame(token_buffer[pos + 1]))
            /\ pos' = pos + 1
            /\ UNCHANGED pc
       ELSE /\ Emit(DoneFrame(FALSE))
            /\ Goto("stream", "s_done")
            /\ UNCHANGED pos
    /\ UNCHANGED <<processVars, unitVars, filterVars, requestVars, intent_result, chunks, response,
                   token_buffer, exc, calls>>

\* Mutant of StreamGFallbackDone: the done frame does not flag the fallback.
StreamGFallbackDone_unflagged ==
    /\ pc["stream"] = "s_g_fallback"
    /\ Emit(DoneFrame(FALSE))
    /\ Goto("stream", "s_done")
    /\ UNCHANGED <<processVars, unitVars, filterVars, requestVars, intent_result, chunks, response,
                   token_buffer, pos, exc, calls>>

StreamGFallbackDone ==
    /\ pc["stream"] = "s_g_fallback"
    /\ Emit(DoneFrame(TRUE))
    /\ Goto("stream", "s_done")
    /\ UNCHANGED <<processVars, unitVars, filterVars, requestVars, intent_result, chunks, response,
                   token_buffer, pos, exc, calls>>

\* Mutant of StreamEnd: a done frame is sent on the way out after an error.
StreamEnd_done_after_error ==
    /\ pc["stream"] \in {"s_done", "s_error"}
    /\ Goto("stream", "s_end")
    /\ IF pc["stream"] = "s_error" THEN frames' = Append(frames, DoneFrame(FALSE))
       ELSE UNCHANGED frames
    /\ UNCHANGED <<processVars, unitVars, filterVars, requestVars, intent_result, chunks, response,
                   token_buffer, pos, exc, calls>>

\* Mutant of StreamEnd: the generator stays at its last yield.
StreamEnd_stuck ==
    /\ pc["stream"] \in {"s_done", "s_error"}
    /\ UNCHANGED vars

\* The generator is resumed after its last yield and finishes.
StreamEnd ==
    /\ pc["stream"] \in {"s_done", "s_error"}
    /\ Goto("stream", "s_end")
    /\ UNCHANGED <<processVars, unitVars, filterVars, requestVars, intent_result, chunks, response, frames,
                   token_buffer, pos, exc, calls>>

(***************************************************************************)
(* Specifications.                                                         *)
(***************************************************************************)
Init == IdleUnitVars /\ IdleFilterVars /\ InitRequestVars

Next ==
    \/ RunClassify
    \/ RunGeneral
    \/ RunRetrieve
    \/ RunGenerate
    \/ StreamClassify
    \/ StreamT1Chunk
    \/ StreamT1Done
    \/ StreamT2Next
    \/ StreamRetrieve
    \/ StreamT3Chunk
    \/ StreamT3Done
    \/ StreamGBuffer
    \/ StreamGRelay
    \/ StreamGFallbackDone
    \/ StreamEnd

Spec == Init /\ [][Next]_vars

InitFilter == IdleUnitVars /\ InitFilterVars /\ IdleRequestVars

NextFilter == \E k \in Slots : BuildFilter(k)

SpecFilter == InitFilter /\ [][NextFilter]_vars

(***************************************************************************)
(* SpecClassifier: one request whose classifier provider returns a text,   *)
(* composed of one document and what the provider wrapped around it; the   *)
(* request then runs on both surfaces as in Spec.                          *)
(***************************************************************************)
Wrappings ==
    {"bare", "padded", "fenced", "fenced_json", "fenced_open", "fenced_upper",
     "tagged", "prose_before", "prose_after"}

Wrap(wrapping, document) ==
    CASE wrapping = "bare" -> <<document>>
      [] wrapping = "padded" -> <<WS, document, WS>>
      [] wrapping = "fenced" -> <<Fence, WS, document, WS, Fence>>
      [] wrapping = "fenced_json" -> <<WS, Fence, "json", WS, document, WS, Fence, WS>>
      [] wrapping = "fenced_open" -> <<Fence, "json", document>>
      [] wrapping = "fenced_upper" -> <<Fence, "JSON", WS, document, WS, Fence>>
      [] wrapping = "tagged" -> <<"json", document>>
      [] wrapping = "prose_before" -> <<"Sorry,", WS, document>>
      [] wrapping = "prose_after" -> <<document, WS, "Sorry,">>

\* The documents a provider sends: the JSON documents, prose, and nothing.
ProviderDocuments == (DOMAIN JsonDocuments) \cup {"Sorry,", ""}

\* Every document bare and in a tagged fence, and two documents, one the
\* classifier accepts and one it does not, in every wrapping.
ClassifierInputs ==
    {in \in [document : ProviderDocuments, wrapping : Wrappings] :
        \/ in.wrapping \in {"bare", "fenced_json"}
        \/ in.document \in {ValidDocument("out_of_scope"),
                            "{intent:not_an_intent,confidence:0.95}"}}

InitClassifier ==
    /\ IdleProcessVars
    /\ IdleFilterVars
    /\ \E document \in ProviderDocuments, wrapping \in Wrappings :
          /\ [document |-> document, wrapping |-> wrapping] \in ClassifierInputs
          /\ call_args = [document |-> document, wrapping |-> wrapping]
          /\ provider = [classifier |-> ClassifierReply(FALSE, Wrap(wrapping, document)),
                         retr_set |-> FALSE, retr |-> IdleRetrievalEnv,
                         gen_set |-> FALSE, gen |-> IdleGenerationEnv]
    /\ call_result = NotCalled
    /\ query = <<"GRID">>
    /\ mode = NoValue
    /\ user_context \in {ctx \in RequestContexts : ctx.assigned_plays # <<>>}
    /\ pc = [s \in Surfaces |-> IF s = "run" THEN "r_classify" ELSE "s_classify"]
    /\ intent_result = [s \in Surfaces |-> NoIntent]
    /\ chunks = [s \in Surfaces |-> <<>>]
    /\ response = NoResponse
    /\ frames = <<>>
    /\ token_buffer = <<>>
    /\ pos = 0
    /\ exc = [s \in Surfaces |-> FALSE]
    /\ calls = [s \in Surfaces |-> NoCalls]

SpecClassifier == InitClassifier /\ [][Next]_vars

(***************************************************************************)
(* SpecGenerate: one provider output handed to the blocking grounded       *)
(* generator and, token by token, to the buffering of the streaming path.  *)
(***************************************************************************)
MaxOutputTokens == 3   \* chunks of the provider output in SpecGenerate

OutputContents ==
    {INSUFFICIENT_CONTEXT, <<"INSUFFICIENT_">>, <<"CONTEXT">>, <<WS>>, <<"answer">>, <<>>}

InitGenerate ==
    /\ IdleProcessVars
    /\ IdleFilterVars
    /\ IdleRequestVars
    /\ \E contents \in SeqsUpTo(OutputContents, MaxOutputTokens) :
          call_args = GenerationEnv(FALSE, contents)
    /\ call_result = [blocking |-> NotCalled, streaming |-> NotCalled]

\* answer, is_sufficient = generate_grounded_answer(...)
CallGenerateGrounded ==
    /\ call_result.blocking = NotCalled
    /\ call_result' = [call_result EXCEPT
                          !.blocking = <<generate_grounded_answer(call_args)>>]
    /\ UNCHANGED <<processVars, call_args, filterVars, requestVars, surfaceVars>>

\* async for token in stream_grounded_answer(...): token_buffer.append(token);
\* then the is_insufficient test of run_stream.
CallBufferStream ==
    /\ call_result.streaming = NotCalled
    /\ LET buffer == stream_grounded_answer(call_args)
       IN  call_result' = [call_result EXCEPT
                              !.streaming = <<[token_buffer |-> buffer,
                                               is_insufficient |->
                                                   buffer_is_insufficient(buffer)]>>]
    /\ UNCHANGED <<processVars, call_args, filterVars, requestVars, surfaceVars>>

NextGenerate == CallGenerateGrounded \/ CallBufferStream

SpecGenerate == InitGenerate /\ [][NextGenerate]_vars

(***************************************************************************)
(* SpecRecommend: one call of get_recommendations.                         *)
(***************************************************************************)
MaxAssigned == 4   \* assigned plays of the user context in SpecRecommend

\* Title and status of an assigned play.
PlayKinds ==
    {[play_title |-> <<"Grid", "Master">>, status |-> "completed"],
     [play_title |-> <<"Grid", "Master">>, status |-> "in-progress"],
     [play_title |-> <<"Grid">>, status |-> "In_Progress"],
     [play_title |-> <<"Amproxin">>, status |-> "in_progress"],
     [play_title |-> <<"Amproxin">>, status |-> "assigned"],
     [play_title |-> <<"Amproxin">>, status |-> "archived"]}

\* A user is assigned a play at most once: the i-th assignment is of play-i.
AssignedPlayLists ==
    {[i \in 1..Len(kinds) |->
         AssignedPlay("play-" \o ToString(i), kinds[i].play_title, kinds[i].status)] :
     kinds \in SeqsUpTo(PlayKinds, MaxAssigned)}

RecommendQueries == {<<>>, <<"GRID">>, <<"grid", "master">>}

InitRecommend ==
    /\ IdleProcessVars
    /\ IdleFilterVars
    /\ IdleRequestVars
    /\ \E plays \in AssignedPlayLists, q \in RecommendQueries,
          retrieved \in {{}, {"play-2"}} :
          call_args = [user_context |-> UserContext("user-1", "comp-a", plays),
                       retrieved_play_ids |-> retrieved, query |-> q]
    /\ call_result = NotCalled

CallRecommend ==
    /\ call_result = NotCalled
    /\ call_result' = <<get_recommendations(call_args.user_context,
                                            call_args.retrieved_play_ids,
                                            call_args.query)>>
    /\ UNCHANGED <<processVars, call_args, filterVars, requestVars, surfaceVars>>

NextRecommend == CallRecommend

SpecRecommend == InitRecommend /\ [][NextRecommend]_vars

(***************************************************************************)
(* SpecRecommendMax: one call of get_recommendations with max_recs given.  *)
(***************************************************************************)
MaxRecs == 4   \* largest max_recs argument in SpecRecommendMax

MaxRecsArguments == (0 - 1)..MaxRecs

ExclusionSets == {{}, {"play-2"}, {"play-1", "play-3"}, {"play-9"}}

AssignedPlayListsMax ==
    {[i \in 1..Len(kinds) |->
         AssignedPlay("play-" \o ToString(i), kinds[i].play_title, kinds[i].status)] :
     kinds \in SeqsUpTo({k \in PlayKinds : k.status \in {"completed", "in_progress"}},
                        MaxAssigned)}

InitRecommendMax ==
    /\ IdleProcessVars
    /\ IdleFilterVars
    /\ IdleRequestVars
    /\ \E plays \in AssignedPlayListsMax, q \in {<<>>, <<"GRID">>},
          retrieved \in ExclusionSets, n \in MaxRecsArguments :
          call_args = [user_context |-> UserContext("user-1", "comp-a", plays),
                       retrieved_play_ids |-> retrieved, query |-> q, max_recs |-> n]
    /\ call_result = NotCalled

CallRecommendMax ==
    /\ call_result = NotCalled
    /\ call_result' = <<get_recommendations_max(call_args.user_context,
                                                call_args.retrieved_play_ids,
                                                call_args.query,
                                                call_args.max_recs)>>
    /\ UNCHANGED <<processVars, call_args, filterVars, requestVars, surfaceVars>>

NextRecommendMax == CallRecommendMax

SpecRecommendMax == InitRecommendMax /\ [][NextRecommendMax]_vars

(***************************************************************************)
(* SpecPlayIds: one call of _play_id_set_from_chunks.                      *)
(***************************************************************************)
MaxChunks == 3   \* chunks in the list handed to _play_id_set_from_chunks

\* A chunk's play_id is the id of a play of the catalog, or None.
ChunkPool ==
    {SourceChunk(asset_id, play_id, 40) :
        asset_id \in {"asset-1", "asset-2"}, play_id \in Plays \cup {NoValue}}

InitPlayIds ==
    /\ IdleProcessVars
    /\ IdleFilterVars
    /\ IdleRequestVars
    /\ call_args \in SeqsUpTo(ChunkPool, MaxChunks)
    /\ call_result = NotCalled

CallPlayIdSet ==
    /\ call_result = NotCalled
    /\ call_result' = <<_play_id_set_from_chunks(call_args)>>
    /\ UNCHANGED <<processVars, call_args, filterVars, requestVars, surfaceVars>>

NextPlayIds == CallPlayIdSet

SpecPlayIds == InitPlayIds /\ [][NextPlayIds]_vars

(***************************************************************************)
(* SpecLoop: concurrent requests on the one event-loop thread of the       *)
(* server process.  The endpoint coroutines (backend/api/search.py) run on *)
(* the event loop; a coroutine keeps the thread until it awaits something  *)
(* that suspends it.  Orchestrator.run calls classify_intent and           *)
(* retrieve_chunks directly, Orchestrator.run_stream hands them to         *)
(* asyncio.to_thread and awaits the result.                                *)
(***************************************************************************)
MaxRequests == 3   \* concurrent requests in SpecLoop

Requests == 1..MaxRequests

\* Positions of a request: waiting for the event loop before its
\* classification ("accepted") or before its retrieval ("classified"), inside
\* the provider call ("classifying", "retrieving"), past its last blocking
\* call ("retrieved").
Runnable == {"accepted", "classified"}
InProviderCall == {"classifying", "retrieving"}

InitLoop ==
    /\ IdleFilterVars
    /\ IdleRequestVars
    /\ call_args = NoValue
    /\ call_result = NotCalled
    /\ task \in [Requests -> [surface : Surfaces, pc : {"accepted"}]]
    /\ process = [loop |-> 0]

\* The event loop, idle, resumes a request that is ready to go on; the request
\* runs up to its next classification or retrieval call.  On run the call is
\* made by the coroutine itself, which keeps the event-loop thread during the
\* call; on run_stream the call is made by a worker thread and the coroutine
\* gives the event loop back at the await.
LoopResume(t) ==
    /\ process.loop = 0
    /\ task[t].pc \in Runnable
    /\ task' = [task EXCEPT ![t].pc = IF @ = "accepted" THEN "classifying"
                                      ELSE "retrieving"]
    /\ process' = [process EXCEPT !.loop = IF task[t].surface = "run" THEN t ELSE 0]
    /\ UNCHANGED <<unitVars, filterVars, requestVars, surfaceVars>>

\* The provider answers the call request t is in.  run goes on at once, to
\* the retrieval call or to its return; run_stream is resumed by the event
\* loop later.
ProviderReturns(t) ==
    /\ task[t].pc \in InProviderCall
    /\ IF task[t].surface = "run"
       THEN /\ process.loop = t
            /\ \/ /\ task[t].pc = "classifying"
                  /\ task' = [task EXCEPT ![t].pc = "retrieving"]
                  /\ UNCHANGED process
               \/ /\ task' = [task EXCEPT ![t].pc = "retrieved"]
                  /\ process' = [process EXCEPT !.loop = 0]
       ELSE /\ \/ /\ task[t].pc = "classifying"
                  /\ task' = [task EXCEPT ![t].pc = "classified"]
               \/ task' = [task EXCEPT ![t].pc = "retrieved"]
            /\ UNCHANGED process
    /\ UNCHANGED <<unitVars, filterVars, requestVars, surfaceVars>>

NextLoop == \E t \in Requests : LoopResume(t) \/ ProviderReturns(t)

SpecLoop == InitLoop /\ [][NextLoop]_vars

(***************************************************************************)
(* SpecDisconnect: run_stream with a client that may go away.  The         *)
(* StreamingResponse of search_stream iterates event_generator, which      *)
(* iterates run_stream; when the client disconnects the response task is   *)
(* cancelled.  The generator is then either suspended at a yield and never *)
(* resumed (closing it raises GeneratorExit at the yield) or suspended at  *)
(* an await, where CancelledError is raised.  Neither is an Exception, so  *)
(* the except clause of run_stream does not run.  A call handed to         *)
(* asyncio.to_thread goes on in its worker thread.                         *)
(***************************************************************************)
\* Mutant of StreamClose: the disconnect is handled like a provider failure.
StreamClose_caught ==
    /\ pc["stream"] \notin {"idle", "s_end", "s_closed"}
    /\ pc["run"] \in {"r_returned", "r_raised"}
    /\ Goto("stream", "s_closed")
    /\ Emit(ErrorFrame)
    /\ UNCHANGED <<processVars, unitVars, filterVars, requestVars, intent_result, chunks, response,
                   token_buffer, pos, exc, calls>>

StreamClose ==
    /\ pc["stream"] \notin {"idle", "s_end", "s_closed"}
    /\ pc["run"] \in {"r_returned", "r_raised"}
    /\ Goto("stream", "s_closed")
    /\ \/ UNCHANGED <<calls, provider>>
       \/ /\ pc["stream"] = "s_classify"
          /\ Called("stream", "classify")
          /\ UNCHANGED provider
       \/ /\ pc["stream"] = "s_retrieve"
          /\ \E env \in RetrievalChoices(intent_result["stream"].intent) :
                LET r == retrieve_chunks(user_context, intent_result["stream"].intent, env)
                IN  /\ r.embed_calls > 0
                    /\ calls' = [calls EXCEPT !["stream"].embed = @ + r.embed_calls,
                                              !["stream"].index = @ + r.index_calls]
                    /\ provider' = [provider EXCEPT !.retr_set = TRUE, !.retr = env]
    /\ UNCHANGED <<processVars, unitVars, filterVars, query, mode, user_context, intent_result, chunks,
                   response, frames, token_buffer, pos, exc>>

InitDisconnect ==
    /\ Init
    /\ query = <<"GRID">>
    /\ mode = NoValue
    /\ user_context.assigned_plays # <<>>

NextDisconnect == Next \/ StreamClose

SpecDisconnect == InitDisconnect /\ [][NextDisconnect]_vars

(***************************************************************************)
(* SpecSingleton: the first requests of a process.  get_data_store         *)
(* (core/data_store.py) and _get_orchestrator (api/search.py) are plain    *)
(* functions used as dependencies, so the framework runs each of them in a *)
(* worker thread of its pool; both test a module global for None, build    *)
(* the instance, assign the global and return it, with no lock.  A request *)
(* resolves get_data_store (for get_current_user) and then                 *)
(* _get_orchestrator.  Instances are numbered in the order they are built; *)
(* 0 is None.                                                              *)
(***************************************************************************)
InitSingleton ==
    /\ IdleFilterVars
    /\ IdleRequestVars
    /\ call_args = NoValue
    /\ call_result = NotCalled
    /\ task = [t \in Requests |-> [pc |-> "store_test", store |-> 0, orchestrator |-> 0]]
    /\ process = [_store |-> 0, _orchestrator |-> 0, stores |-> 0, orchestrators |-> <<>>]

\* if _store is None:
GetDataStoreTest(t) ==
    /\ task[t].pc = "store_test"
    /\ task' = [task EXCEPT ![t].pc = IF process._store = 0 THEN "store_build"
                                      ELSE "store_return"]
    /\ UNCHANGED <<process, unitVars, filterVars, requestVars, surfaceVars>>

\* _store = DataStore(get_settings().data_dir)
GetDataStoreBuild(t) ==
    /\ task[t].pc = "store_build"
    /\ process' = [process EXCEPT !.stores = @ + 1, !._store = process.stores + 1]
    /\ task' = [task EXCEPT ![t].pc = "store_return"]
    /\ UNCHANGED <<unitVars, filterVars, requestVars, surfaceVars>>

\* return _store
GetDataStoreReturn(t) ==
    /\ task[t].pc = "store_return"
    /\ task' = [task EXCEPT ![t].store = process._store, ![t].pc = "orchestrator_test"]
    /\ UNCHANGED <<process, unitVars, filterVars, requestVars, surfaceVars>>

\* if _orchestrator is None:
GetOrchestratorTest(t) ==
    /\ task[t].pc = "orchestrator_test"
    /\ task' = [task EXCEPT ![t].pc = IF process._orchestrator = 0
                                      THEN "orchestrator_build"
                                      ELSE "orchestrator_return"]
    /\ UNCHANGED <<process, unitVars, filterVars, requestVars, surfaceVars>>

\* _orchestrator = Orchestrator(); its __init__ keeps get_data_store(), which
\* finds _store set by now.
GetOrchestratorBuild(t) ==
    /\ task[t].pc = "orchestrator_build"
    /\ process' = [process EXCEPT !.orchestrators = Append(@, process._store),
                                  !._orchestrator = Len(process.orchestrators) + 1]
    /\ task' = [task EXCEPT ![t].pc = "orchestrator_return"]
    /\ UNCHANGED <<unitVars, filterVars, requestVars, surfaceVars>>

\* return _orchestrator
GetOrchestratorReturn(t) ==
    /\ task[t].pc = "orchestrator_return"
    /\ task' = [task EXCEPT ![t].orchestrator = process._orchestrator, ![t].pc = "resolved"]
    /\ UNCHANGED <<process, unitVars, filterVars, requestVars, surfaceVars>>

NextSingleton ==
    \E t \in Requests :
        \/ GetDataStoreTest(t)
        \/ GetDataStoreBuild(t)
        \/ GetDataStoreReturn(t)
        \/ GetOrchestratorTest(t)
        \/ GetOrchestratorBuild(t)
        \/ GetOrchestratorReturn(t)

SpecSingleton == InitSingleton /\ [][NextSingleton]_vars

(***************************************************************************)
(* SpecLive: a request served to its end.  Every provider call returns or  *)
(* fails, every provider token stream ends and the client keeps reading    *)
(* the response, so a step of the request that can be taken is taken.      *)
(***************************************************************************)
InitLive ==
    /\ Init
    /\ query = <<"GRID">>
    /\ mode \in {NoValue, "performance"}
    /\ user_context.assigned_plays = <<>>

SpecLive == InitLive /\ [][Next]_vars /\ WF_vars(Next)

(***************************************************************************)
(* Properties of the filter builder, checked under SpecFilter.             *)
(***************************************************************************)
AssignedIdSet(ctx) == {ctx.assigned_plays[i].play_id : i \in 1..Len(ctx.assigned_plays)}

\* The values a filter compares the given metadata field with, anywhere in it.
RECURSIVE MentionedValues(_, _)
MentionedValues(f, field) ==
    CASE f.op = "$eq" -> IF f.field = field THEN {f.val} ELSE {}
      [] f.op = "$in" -> IF f.field = field THEN {f.vals[i] : i \in 1..Len(f.vals)} ELSE {}
      [] OTHER -> UNION {MentionedValues(f.args[i], field) : i \in 1..Len(f.args)}

\* C1: every filter build_pinecone_filter returns, for every context and every
\* intent string (known or not), has an $and at its root whose first conjunct
\* is {company_id: {$eq: ctx.company_id}}.
C1_CompanyFenceFirst ==
    \A k \in Slots :
        fbuilt[k] =>
            /\ ffilter[k].op = "$and"
            /\ Len(ffilter[k].args) >= 1
            /\ ffilter[k].args[1] =
                   [op |-> "$eq", field |-> "company_id", val |-> fctx[k].company_id,
                    vals |-> <<>>, args |-> <<>>]

C1_Witness ==
    /\ fbuilt["a"] /\ fbuilt["b"]
    /\ fintent["a"] = "not_an_intent" /\ fintent["b"] = "combined"
    /\ fctx["a"].company_id = "comp-b"
    /\ ffilter["a"].args[1].val = "comp-b"

\* C2: filters built for two contexts of distinct company_id, for any pair of
\* intents, are satisfied by no common index record, and each mentions only
\* its own context's company_id.
C2_TenantsDisjoint ==
    (fbuilt["a"] /\ fbuilt["b"] /\ fctx["a"].company_id # fctx["b"].company_id) =>
        /\ \A rec \in IndexRecords :
               ~(Satisfies(rec, ffilter["a"]) /\ Satisfies(rec, ffilter["b"]))
        /\ \A k \in Slots : MentionedValues(ffilter[k], "company_id") = {fctx[k].company_id}

C2_Witness ==
    /\ fbuilt["a"] /\ fbuilt["b"]
    /\ fctx["a"].company_id # fctx["b"].company_id
    /\ fctx["a"].user_id = fctx["b"].user_id
    /\ fintent["a"] = "combined" /\ fintent["b"] = "performance_history"
    /\ \E rec \in IndexRecords : Satisfies(rec, ffilter["a"])
    /\ \E rec \in IndexRecords : Satisfies(rec, ffilter["b"])

\* C3: a record that satisfies a built filter is of the context's company and
\* is either a knowledge record of an assigned play or a submission of the
\* context's own user.
C3_ScopedRecordsOnly ==
    \A k \in Slots :
        fbuilt[k] =>
            \A rec \in IndexRecords :
                Satisfies(rec, ffilter[k]) =>
                    /\ rec.company_id = fctx[k].company_id
                    /\ \/ rec.content_type = "knowledge"
                          /\ rec.play_id \in AssignedIdSet(fctx[k])
                       \/ rec.content_type = "submission"
                          /\ rec.user_id = fctx[k].user_id

C3_Witness ==
    /\ fbuilt["a"]
    /\ fintent["a"] = "combined"
    /\ \E rec \in IndexRecords :
          Satisfies(rec, ffilter["a"]) /\ rec.content_type = "submission"
    /\ \E rec \in IndexRecords :
          Satisfies(rec, ffilter["a"]) /\ rec.content_type = "knowledge"
    /\ \E rec \in IndexRecords :
          /\ ~Satisfies(rec, ffilter["a"])
          /\ rec.company_id = fctx["a"].company_id
          /\ rec.content_type = "submission"
          /\ rec.user_id \in Users \ {fctx["a"].user_id}

\* The three filter shapes as the design states them.
ShapeKnowledge(ctx) ==
    And(<<Eq("company_id", ctx.company_id), Eq("content_type", "knowledge"),
          In("play_id", [i \in 1..Len(ctx.assigned_plays) |-> ctx.assigned_plays[i].play_id])>>)

ShapeSubmission(ctx) ==
    And(<<Eq("company_id", ctx.company_id), Eq("content_type", "submission"),
          Eq("user_id", ctx.user_id)>>)

ShapeCombined(ctx) ==
    And(<<Eq("company_id", ctx.company_id),
          Or(<<And(<<Eq("content_type", "knowledge"),
                     In("play_id", [i \in 1..Len(ctx.assigned_plays) |->
                                        ctx.assigned_plays[i].play_id])>>),
               And(<<Eq("content_type", "submission"), Eq("user_id", ctx.user_id)>>)>>)>>)

\* C4: the submission filter is returned exactly when intent is
\* performance_history, the combined filter exactly when intent is combined,
\* and the knowledge filter for every other intent string.
C4_FilterSelection ==
    \A k \in Slots :
        fbuilt[k] =>
            /\ (ffilter[k] = ShapeSubmission(fctx[k])) <=> (fintent[k] = "performance_history")
            /\ (ffilter[k] = ShapeCombined(fctx[k])) <=> (fintent[k] = "combined")
            /\ (ffilter[k] = ShapeKnowledge(fctx[k])) <=>
                   (fintent[k] \notin {"performance_history", "combined"})

C4_Witness ==
    /\ fbuilt["a"] /\ fbuilt["b"]
    /\ fintent["a"] = "not_an_intent" /\ ffilter["a"] = ShapeKnowledge(fctx["a"])
    /\ fintent["b"] = "out_of_scope" /\ ffilter["b"] = ShapeKnowledge(fctx["b"])

(***************************************************************************)
(* Properties of the orchestrator, checked under Spec.                     *)
(***************************************************************************)
CountFrames(type) == Cardinality({i \in 1..Len(frames) : frames[i].type = type})

RunOver == pc["run"] \in {"r_returned", "r_raised"}

StreamOver == pc["stream"] = "s_end"

RetrievalFailed ==
    provider.retr_set /\ (provider.retr.embed_fails \/ provider.retr.index_fails)

GenerationFailed == provider.gen_set /\ provider.gen.fails

\* The provider's whole output, trimmed, is the sentinel.
OutputIsSentinel ==
    provider.gen_set /\ strip(join(provider.gen.contents)) = INSUFFICIENT_CONTEXT

\* C5: the tier of the SearchResponse returned by run is decided by the
\* post-override intent and the pipeline outcomes: out_of_scope gives tier1,
\* general_professional tier2, otherwise an empty retrieval tier3, otherwise an
\* insufficient grounded generation tier3, otherwise grounded.
C5_RunTier ==
    pc["run"] = "r_returned" =>
        LET i == intent_result["run"].intent
        IN  /\ i \in KnownIntents
            /\ mode = "knowledge" => i = "assigned_knowledge"
            /\ mode = "performance" => i = "performance_history"
            /\ response.intent = intent_result["run"]
            /\ response.response_tier =
                   IF i = "out_of_scope" THEN "tier1"
                   ELSE IF i = "general_professional" THEN "tier2"
                   ELSE IF chunks["run"] = <<>> THEN "tier3"
                   ELSE IF OutputIsSentinel THEN "tier3"
                   ELSE "grounded"

C5_Witness ==
    /\ pc["run"] = "r_returned"
    /\ chunks["run"] # <<>>
    /\ OutputIsSentinel
    /\ response.response_tier = "tier3"

\* C6: on both surfaces a request whose post-override intent is out_of_scope
\* makes no embedding, index or generation call, and its result is tier1 with
\* the canned refusal, no sources and no recommendations.
C6_OutOfScope ==
    /\ \A s \in Surfaces :
           intent_result[s].intent = "out_of_scope" =>
               calls[s].embed = 0 /\ calls[s].index = 0 /\ calls[s].generate = 0
    /\ (RunOver /\ intent_result["run"].intent = "out_of_scope") =>
           /\ pc["run"] = "r_returned"
           /\ response.response_tier = "tier1"
           /\ response.answer = OUT_OF_SCOPE_ANSWER
           /\ response.sources = <<>>
           /\ response.recommendations = <<>>
    /\ (StreamOver /\ intent_result["stream"].intent = "out_of_scope") =>
           /\ Len(frames) = 3
           /\ frames[1].type = "meta"
           /\ frames[1].response_tier = "tier1"
           /\ frames[1].sources = <<>>
           /\ frames[1].recommendations = <<>>
           /\ frames[2].type = "chunk"
           /\ frames[2].content = OUT_OF_SCOPE_ANSWER
           /\ frames[3].type = "done"
           /\ ~frames[3].is_insufficient

C6_Witness ==
    /\ StreamOver
    /\ pc["run"] = "r_returned"
    /\ intent_result["stream"].intent = "out_of_scope"
    /\ intent_result["run"].intent = "out_of_scope"
    /\ user_context.assigned_plays # <<>>
    /\ Len(frames) = 3

\* C7 (as claimed): the meta frame of run_stream carries the same
\* response_tier, sources and recommendations as the SearchResponse of run.
C7_SurfacesAgree ==
    (pc["run"] = "r_returned" /\ CountFrames("meta") > 0) =>
        /\ frames[1].response_tier = response.response_tier
        /\ frames[1].sources = response.sources
        /\ frames[1].recommendations = response.recommendations

\* C7 (amended): the meta frame of run_stream carries the same response_tier,
\* sources and recommendations as the SearchResponse of run, except when
\* retrieval returned chunks and the grounded generator's trimmed output is the
\* sentinel: run then returns tier3 with no sources and recommendations
\* against an empty exclusion set, while the meta frame, sent before
\* generation, says grounded with the retrieved chunks and recommendations
\* that exclude the chunks' play ids.
C7_SurfacesAgreeUnlessInsufficient ==
    (pc["run"] = "r_returned" /\ CountFrames("meta") > 0) =>
        /\ frames[1].intent = response.intent
        /\ IF chunks["run"] # <<>> /\ OutputIsSentinel
           THEN /\ response.response_tier = "tier3"
                /\ response.sources = <<>>
                /\ response.recommendations = get_recommendations(user_context, {}, query)
                /\ frames[1].response_tier = "grounded"
                /\ frames[1].sources = chunks["run"]
                /\ frames[1].recommendations =
                       get_recommendations(user_context,
                                           _play_id_set_from_chunks(chunks["run"]), query)
           ELSE /\ frames[1].response_tier = response.response_tier
                /\ frames[1].sources = response.sources
                /\ frames[1].recommendations = response.recommendations

C7_Witness ==
    /\ pc["run"] = "r_returned"
    /\ StreamOver
    /\ response.response_tier = "grounded"
    /\ frames[1].response_tier = "grounded"
    /\ frames[1].sources # <<>>
    /\ frames[1].recommendations # <<>>
    /\ Len(frames[1].recommendations) < Len(user_context.assigned_plays)

\* C8 (as claimed): every stream contains exactly one meta frame, and it is
\* the first frame.
C8_ExactlyOneMetaFirst ==
    StreamOver => (CountFrames("meta") = 1 /\ frames[1].type = "meta")

\* C8 (amended): a stream never contains more than one meta frame, and a meta
\* frame is the first frame of its stream; a finished stream contains exactly
\* one meta frame unless classification or retrieval failed, in which case it
\* is the error frame alone.
C8_MetaAtMostOnceFirst ==
    /\ CountFrames("meta") <= 1
    /\ \A i \in 1..Len(frames) : frames[i].type = "meta" => i = 1
    /\ StreamOver =>
           \/ CountFrames("meta") = 1 /\ frames[1].type = "meta"
           \/ /\ frames = <<ErrorFrame>>
              /\ provider.classifier.raises \/ RetrievalFailed

C8_Witness ==
    /\ StreamOver
    /\ CountFrames("meta") = 1
    /\ CountFrames("chunk") >= 2
    /\ frames[1].type = "meta"

\* C9: a finished stream ends with exactly one terminal frame, done when no
\* failure occurred and error when one did; nothing follows a terminal frame
\* (so there is never both, and at most one error), and every chunk frame
\* comes after the meta frame and before the terminal frame.
C9_TerminalFrame ==
    /\ \A i \in 1..Len(frames) :
           frames[i].type \in {"done", "error"} => i = Len(frames)
    /\ \A i \in 1..Len(frames) :
           frames[i].type = "chunk" => (i > 1 /\ frames[1].type = "meta")
    /\ CountFrames("error") <= 1
    /\ StreamOver =>
           /\ frames # <<>>
           /\ frames[Len(frames)].type = IF exc["stream"] THEN "error" ELSE "done"
           /\ CountFrames("done") + CountFrames("error") = 1

C9_Witness ==
    /\ StreamOver
    /\ exc["stream"]
    /\ CountFrames("chunk") >= 1
    /\ frames[Len(frames)].type = "error"

\* C10: a failure of the embedding call, of the index query or of a generation
\* call is never reported as a tiered result: run raises and returns no
\* SearchResponse, and run_stream sends exactly one error frame, no done frame
\* and no tier3 meta frame.
C10_FailuresSurface ==
    /\ (RunOver /\ (RetrievalFailed \/ GenerationFailed)) =>
           /\ pc["run"] = "r_raised"
           /\ exc["run"]
           /\ response = NoResponse
    /\ (StreamOver /\ (RetrievalFailed \/ GenerationFailed)) =>
           /\ CountFrames("error") = 1
           /\ CountFrames("done") = 0
           /\ \A i \in 1..Len(frames) :
                  ~(frames[i].type = "meta" /\ frames[i].response_tier = "tier3")

C10_Witness ==
    /\ StreamOver
    /\ pc["run"] = "r_raised"
    /\ provider.retr_set
    /\ provider.retr.index_fails
    /\ frames = <<ErrorFrame>>

(***************************************************************************)
(* Classifier fail-soft, under SpecClassifier.                             *)
(***************************************************************************)
\* The documents that are a JSON object with one of the five intents and a
\* confidence that is a number or absent.
ObjectsWithValidIntent ==
    {ValidDocument(i) : i \in KnownIntents}
        \cup {"{intent:combined}", "{intent:combined,confidence:1.5}"}

\* The wrappings that leave the document alone once the text is trimmed and a
\* leading fence with its lower-case json tag is taken off.
StrippableWrappings == {"bare", "padded", "fenced", "fenced_json", "fenced_open"}

ReplyIsMalformed ==
    \/ call_args.document \notin ObjectsWithValidIntent
    \/ call_args.wrapping \notin StrippableWrappings

IsFallbackIntent(ir) == ir.intent = "assigned_knowledge" /\ ir.confidence = 50

\* C11: when the classifier provider returns text that, after the optional
\* fence stripping, is not a JSON object with a valid intent (unparseable,
\* intent key missing, intent outside the five values, non-numeric
\* confidence), classification raises nothing and yields assigned_knowledge
\* with confidence 0.5 on both surfaces: run returns or streams with that
\* intent, and an exception or error frame is due to retrieval or generation
\* only.
C11_ClassifierFailsSoft ==
    ReplyIsMalformed =>
        /\ pc["run"] # "r_classify" => IsFallbackIntent(intent_result["run"])
        /\ pc["stream"] # "s_classify" => IsFallbackIntent(intent_result["stream"])
        /\ response # NoResponse => IsFallbackIntent(response.intent)
        /\ \A i \in 1..Len(frames) :
              /\ frames[i].type = "meta" => IsFallbackIntent(frames[i].intent)
              /\ frames[i].type = "error" => RetrievalFailed \/ GenerationFailed
        /\ \A s \in Surfaces : exc[s] => RetrievalFailed \/ GenerationFailed

C11_Witness ==
    /\ call_args.wrapping = "fenced_json"
    /\ call_args.document = "{intent:combined,confidence:high}"
    /\ RunOver
    /\ StreamOver
    /\ IsFallbackIntent(response.intent)
    /\ frames[1].type = "meta"
    /\ IsFallbackIntent(frames[1].intent)

(***************************************************************************)
(* Mode override, under Spec.                                              *)
(***************************************************************************)
OverriddenIntent(classified_intent) ==
    IF mode = "knowledge" THEN "assigned_knowledge"
    ELSE IF mode = "performance" THEN "performance_history"
    ELSE classified_intent

\* C12: mode None or auto leaves the classified intent unchanged, knowledge
\* replaces it with assigned_knowledge and performance with performance_history
\* whatever the classifier returned; the override is applied after
\* classification and before any tier decision on both surfaces (tier1 and tier2
\* follow the overridden intent), and applying it again changes nothing.
C12_ModeOverride ==
    LET classified == classify_intent(provider.classifier)
        expected == OverriddenIntent(classified.intent)
    IN  /\ \A s \in Surfaces :
              intent_result[s] # NoIntent =>
                  /\ intent_result[s].intent = expected
                  /\ intent_result[s].confidence = classified.confidence
                  /\ intent_result[s].reasoning = classified.reasoning
                  /\ _apply_mode(intent_result[s], mode) = intent_result[s]
        /\ response # NoResponse =>
              /\ response.intent.intent = expected
              /\ response.response_tier = "tier1" <=> expected = "out_of_scope"
              /\ response.response_tier = "tier2" <=> expected = "general_professional"
        /\ \A i \in 1..Len(frames) :
              frames[i].type = "meta" =>
                  /\ frames[i].intent.intent = expected
                  /\ frames[i].response_tier = "tier1" <=> expected = "out_of_scope"
                  /\ frames[i].response_tier = "tier2" <=> expected = "general_professional"

C12_Witness ==
    /\ mode = "performance"
    /\ classify_intent(provider.classifier).intent = "out_of_scope"
    /\ RunOver
    /\ StreamOver
    /\ response.intent.intent = "performance_history"
    /\ response.response_tier = "grounded"
    /\ frames[1].type = "meta"
    /\ frames[1].intent.intent = "performance_history"

(***************************************************************************)
(* Retrieval short-circuit, under Spec.                                    *)
(***************************************************************************)
\* Surface s has called retrieve_chunks and the call is over.
Retrieved(s) ==
    /\ intent_result[s].intent \in {"assigned_knowledge", "performance_history", "combined"}
    /\ pc[s] \notin {"r_classify", "r_retrieve", "s_classify", "s_retrieve"}

ShortCircuits(s) ==
    /\ assigned_play_ids(user_context) = <<>>
    /\ intent_result[s].intent # "performance_history"

\* C13 as stated: with no assigned play ids and an intent other than
\* performance_history retrieve_chunks returns an empty list without an
\* embedding or index call; otherwise it calls the embedding provider and the
\* index.
C13_ShortCircuitElseBothCalls ==
    \A s \in Surfaces :
        Retrieved(s) =>
            IF ShortCircuits(s)
            THEN chunks[s] = <<>> /\ ~exc[s] /\ calls[s].embed = 0 /\ calls[s].index = 0
            ELSE calls[s].embed = 1 /\ calls[s].index = 1

\* C13, amended: with no assigned play ids and an intent other than
\* performance_history retrieve_chunks returns an empty list without an
\* embedding or index call; otherwise it calls the embedding provider, and it
\* calls the index unless the embedding call failed.
C13_ShortCircuitElseEmbeds ==
    \A s \in Surfaces :
        Retrieved(s) =>
            IF ShortCircuits(s)
            THEN chunks[s] = <<>> /\ ~exc[s] /\ calls[s].embed = 0 /\ calls[s].index = 0
            ELSE /\ calls[s].embed = 1
                 /\ calls[s].index = (IF provider.retr.embed_fails THEN 0 ELSE 1)

C13_Witness ==
    /\ Retrieved("run")
    /\ Retrieved("stream")
    /\ assigned_play_ids(user_context) = <<>>
    /\ intent_result["run"].intent = "performance_history"
    /\ calls["run"].index = 1
    /\ calls["stream"].index = 1
    /\ chunks["run"] # <<>>

(***************************************************************************)
(* Similarity threshold, under Spec.                                       *)
(***************************************************************************)
Descending(scored) ==
    \A i, j \in 1..Len(scored) : i < j => scored[i].score >= scored[j].score

\* C14: the chunk list retrieve_chunks returns is exactly the subsequence of
\* the index matches whose score is at least similarity_threshold (a score
\* equal to it is kept), in the order the index returned them and with one
\* chunk per retained match; so it is in descending score order whenever the
\* index returned the matches in descending score order.
C14_ThresholdSubsequence ==
    \A s \in Surfaces :
        (Retrieved(s) /\ ~ShortCircuits(s) /\ ~RetrievalFailed) =>
            LET matches == provider.retr.matches
                kept == {i \in 1..Len(matches) : matches[i].score >= similarity_threshold}
            IN  /\ Len(chunks[s]) = Cardinality(kept)
                /\ \A j \in 1..Len(chunks[s]) :
                      LET i == CHOOSE k \in kept : Cardinality({l \in kept : l <= k}) = j
                      IN  /\ chunks[s][j].asset_id = matches[i].asset_id
                          /\ chunks[s][j].play_id = matches[i].metadata.play_id
                          /\ chunks[s][j].score = matches[i].score
                /\ Descending(matches) => Descending(chunks[s])

C14_Witness ==
    /\ Retrieved("run")
    /\ Retrieved("stream")
    /\ Len(provider.retr.matches) = 2
    /\ provider.retr.matches[1].score = similarity_threshold
    /\ provider.retr.matches[2].score > similarity_threshold
    /\ Len(chunks["run"]) = 2
    /\ chunks["run"][1].score = similarity_threshold
    /\ chunks["stream"] = chunks["run"]

(***************************************************************************)
(* Sufficiency detection, under SpecGenerate.                              *)
(***************************************************************************)
\* The provider's full output is the sentinel with nothing but whitespace
\* before and after it.
OutputIsExactlySentinel ==
    LET output == join(call_args.contents)
        inked == {i \in 1..Len(output) : output[i] # WS}
    IN  /\ inked # {}
        /\ LET first == CHOOSE i \in inked : \A k \in inked : i <= k
               last == CHOOSE i \in inked : \A k \in inked : k <= i
           IN  SubSeq(output, first, last) = <<"INSUFFICIENT_", "CONTEXT">>

\* C15: generate_grounded_answer reports is_sufficient = false exactly when the
\* provider's trimmed full output equals INSUFFICIENT_CONTEXT, the streaming
\* path computes is_insufficient from the concatenation of all tokens by the
\* same rule, and so the two agree on the same provider output.
C15_SufficiencyRule ==
    /\ call_result.blocking # NotCalled =>
           (~call_result.blocking[1].is_sufficient <=> OutputIsExactlySentinel)
    /\ call_result.streaming # NotCalled =>
           (call_result.streaming[1].is_insufficient <=> OutputIsExactlySentinel)
    /\ (call_result.blocking # NotCalled /\ call_result.streaming # NotCalled) =>
           call_result.streaming[1].is_insufficient = ~call_result.blocking[1].is_sufficient

C15_Witness ==
    /\ call_args.contents = <<<<WS>>, <<"INSUFFICIENT_">>, <<"CONTEXT">>>>
    /\ call_result.blocking # NotCalled
    /\ call_result.streaming # NotCalled
    /\ ~call_result.blocking[1].is_sufficient
    /\ call_result.streaming[1].is_insufficient

(***************************************************************************)
(* Grounded streaming, under Spec.                                         *)
(***************************************************************************)
GroundedStream ==
    /\ frames # <<>>
    /\ frames[1].type = "meta"
    /\ frames[1].response_tier = "grounded"

\* The contents of the chunk frames sent so far, in order.
ChunkContents ==
    LET sent == SelectSeq(frames, LAMBDA f : f.type = "chunk")
    IN  [j \in 1..Len(sent) |-> sent[j].content]

\* The non-empty chunks of the provider's token stream, in order.
ProviderTokens == SelectSeq(provider.gen.contents, LAMBDA c : c # <<>>)

\* C16: on the grounded streaming path no chunk frame is sent before the
\* provider's token stream has been consumed to its end, and the chunk frames
\* relayed after that carry the buffered tokens in their original order, one
\* frame per token.
C16_BufferThenRelay ==
    GroundedStream =>
        /\ CountFrames("chunk") > 0 =>
               /\ provider.gen_set
               /\ ~provider.gen.fails
               /\ pc["stream"] \notin {"s_g_meta", "s_g_buffer"}
               /\ token_buffer = ProviderTokens
        /\ (CountFrames("chunk") > 0 /\ ~OutputIsSentinel) =>
               /\ Len(ChunkContents) <= Len(token_buffer)
               /\ ChunkContents = SubSeq(token_buffer, 1, Len(ChunkContents))
        /\ (pc["stream"] \in {"s_done", "s_end"} /\ ~exc["stream"] /\ ~OutputIsSentinel) =>
               ChunkContents = ProviderTokens

C16_Witness ==
    /\ GroundedStream
    /\ StreamOver
    /\ Len(provider.gen.contents) = 2
    /\ ChunkContents = <<<<"answer">>, <<WS>>>>
    /\ frames[Len(frames)].type = "done"

\* C17: when the generator's output on the grounded streaming path is the
\* sentinel, the client receives exactly one meta frame with tier grounded and
\* non-empty sources, then exactly one chunk frame carrying the tier3 fallback
\* text, then done with is_insufficient = true; the sentinel is never the
\* content of a chunk frame of such a stream, and no done frame carries
\* is_insufficient = true in any other case.
C17_InsufficientStream ==
    /\ (GroundedStream /\ OutputIsSentinel /\ ~GenerationFailed) =>
           /\ \A i \in 1..Len(frames) :
                  frames[i].type = "chunk" =>
                      /\ frames[i].content # INSUFFICIENT_CONTEXT
                      /\ frames[i].content = TIER3_ANSWER
           /\ StreamOver =>
                  /\ Len(frames) = 3
                  /\ frames[1].sources # <<>>
                  /\ frames[2] = ChunkFrame(TIER3_ANSWER)
                  /\ frames[3] = DoneFrame(TRUE)
    /\ \A i \in 1..Len(frames) :
           (frames[i].type = "done" /\ frames[i].is_insufficient) =>
               GroundedStream /\ OutputIsSentinel /\ ~GenerationFailed

C17_Witness ==
    /\ GroundedStream
    /\ StreamOver
    /\ provider.gen.contents = <<<<WS>>, INSUFFICIENT_CONTEXT>>
    /\ Len(frames) = 3
    /\ frames[2] = ChunkFrame(TIER3_ANSWER)
    /\ frames[3] = DoneFrame(TRUE)

(***************************************************************************)
(* Recommendations of a grounded answer, under Spec.                       *)
(***************************************************************************)
\* The distinct non-null play ids of a list of source chunks.
SourcePlayIds(sources) == {sources[i].play_id : i \in 1..Len(sources)} \ {NoValue}

ExcludesSources(sources, recommendations) ==
    /\ recommendations = get_recommendations(user_context, SourcePlayIds(sources), query)
    /\ \A i \in 1..Len(recommendations), j \in 1..Len(sources) :
           recommendations[i].play_id # sources[j].play_id

\* C18: whenever tier grounded is reported, in the response of run or in the
\* meta frame of run_stream, the recommendations were computed with the
\* exclusion set equal to the distinct non-null play ids of the retrieved
\* chunks, so no recommendation has the play id of a returned source chunk.
C18_GroundedExcludesSources ==
    /\ response.response_tier = "grounded" =>
           ExcludesSources(response.sources, response.recommendations)
    /\ \A i \in 1..Len(frames) :
           (frames[i].type = "meta" /\ frames[i].response_tier = "grounded") =>
               ExcludesSources(frames[i].sources, frames[i].recommendations)

C18_Witness ==
    /\ response.response_tier = "grounded"
    /\ GroundedStream
    /\ SourcePlayIds(response.sources) = {"play-1"}
    /\ Len(response.sources) = 2
    /\ Len(response.recommendations) = 1
    /\ response.recommendations[1].play_id = "play-2"
    /\ frames[1].recommendations = response.recommendations

(***************************************************************************)
(* Recommendation order, under SpecRecommend.                              *)
(***************************************************************************)
\* The status rank as the table states it, on the status string as given.
StatedRank(status) ==
    IF status \in {"in_progress", "in-progress"} THEN 0
    ELSE IF status = "assigned" THEN 1
    ELSE IF status = "completed" THEN 2
    ELSE 3

\* The number of words the query and the title share, case ignored; 0
\* without a query.
Overlap(q, title) ==
    Cardinality({Lower(q[i]) : i \in 1..Len(q)}
                    \cap {Lower(title[i]) : i \in 1..Len(title)})

\* The recommendations are the first three candidates (assigned plays not in
\* the exclusion set) in ascending order of (-overlap, rank), candidates with
\* equal keys in assignment order.
RecommendsInOrder(rank(_)) ==
    LET plays == call_args.user_context.assigned_plays
        recs == call_result[1]
        cand == {i \in 1..Len(plays) : plays[i].play_id \notin call_args.retrieved_play_ids}
        overlap(i) == Overlap(call_args.query, plays[i].play_title)
        before(i, j) ==
            \/ overlap(i) > overlap(j)
            \/ overlap(i) = overlap(j) /\ rank(plays[i].status) < rank(plays[j].status)
            \/ overlap(i) = overlap(j) /\ rank(plays[i].status) = rank(plays[j].status) /\ i < j
        place(i) == Cardinality({j \in cand : before(j, i)}) + 1
    IN  /\ Len(recs) = (IF Cardinality(cand) < 3 THEN Cardinality(cand) ELSE 3)
        /\ \A i \in cand :
               place(i) <= 3 =>
                   /\ recs[place(i)].play_id = plays[i].play_id
                   /\ recs[place(i)].play_title = plays[i].play_title
                   /\ recs[place(i)].status = plays[i].status

\* C19 as stated: get_recommendations returns the first max_recs candidates
\* sorted ascending by (minus the query/title word overlap, status rank), the
\* overlap being 0 without a query and the rank 0 for in_progress / in-progress,
\* 1 for assigned, 2 for completed and 3 for any other status; candidates with
\* equal keys keep their assignment order.
C19_SortedByOverlapThenRank ==
    call_result # NotCalled => RecommendsInOrder(StatedRank)

\* C19, amended: the same, the status being compared with the table after
\* lower-casing it.
C19_SortedByOverlapThenLoweredRank ==
    call_result # NotCalled => RecommendsInOrder(LAMBDA status : StatedRank(Lower(status)))

C19_Witness ==
    /\ call_result # NotCalled
    /\ call_args.query = <<>>
    /\ call_args.retrieved_play_ids = {}
    /\ Len(call_args.user_context.assigned_plays) = 4
    /\ Len(call_result[1]) = 3
    /\ call_result[1][1].status = "In_Progress"
    /\ call_result[1][1].play_id = "play-3"
    /\ call_result[1][2].status = "assigned"
    /\ call_result[1][3].status = "completed"

(***************************************************************************)
(* Play-id extraction, under SpecPlayIds.                                  *)
(***************************************************************************)
\* C20: _play_id_set_from_chunks returns exactly the set of the distinct
\* non-null play ids of the given chunks: a play id several chunks carry is in
\* it once, a chunk with a null play id contributes nothing, and an empty or
\* all-null chunk list gives the empty set.
C20_DistinctNonNullPlayIds ==
    call_result # NotCalled =>
        LET ids == call_result[1]
            carriers(p) == {i \in 1..Len(call_args) : call_args[i].play_id = p}
        IN  /\ \A p \in Plays : p \in ids <=> carriers(p) # {}
            /\ ids \subseteq Plays
            /\ Cardinality(ids) = Cardinality({p \in Plays : carriers(p) # {}})
            /\ carriers(NoValue) = 1..Len(call_args) => ids = {}

C20_Witness ==
    /\ call_result # NotCalled
    /\ Len(call_args) = 3
    /\ call_args[1].play_id = "play-1"
    /\ call_args[2].play_id = NoValue
    /\ call_args[3].play_id = "play-1"
    /\ call_result[1] = {"play-1"}

(***************************************************************************)
(* A user without assigned plays, under Spec.                              *)
(***************************************************************************)
NoPlaysKnowledge(s) ==
    /\ assigned_play_ids(user_context) = <<>>
    /\ intent_result[s].intent \in {"assigned_knowledge", "combined"}

\* C21: for a user with zero assigned plays and a post-override intent of
\* assigned_knowledge or combined the result is tier3 with the canned
\* not-found message and empty sources, reached without an embedding, index
\* or generation call, the recommendations being computed against an empty
\* exclusion set; on the streaming surface it is the tier3 meta frame, one
\* chunk frame with the not-found message and done.
C21_NoPlaysTier3 ==
    /\ NoPlaysKnowledge("run") =>
          /\ calls["run"].embed = 0 /\ calls["run"].index = 0 /\ calls["run"].generate = 0
          /\ ~exc["run"]
          /\ RunOver =>
                /\ pc["run"] = "r_returned"
                /\ response.response_tier = "tier3"
                /\ response.answer = TIER3_ANSWER
                /\ response.sources = <<>>
                /\ response.recommendations = get_recommendations(user_context, {}, query)
    /\ NoPlaysKnowledge("stream") =>
          /\ calls["stream"].embed = 0 /\ calls["stream"].index = 0
          /\ calls["stream"].generate = 0
          /\ ~exc["stream"]
          /\ StreamOver =>
                /\ Len(frames) = 3
                /\ frames[1].type = "meta"
                /\ frames[1].response_tier = "tier3"
                /\ frames[1].sources = <<>>
                /\ frames[1].recommendations = get_recommendations(user_context, {}, query)
                /\ frames[2] = ChunkFrame(TIER3_ANSWER)
                /\ frames[3] = DoneFrame(FALSE)

C21_Witness ==
    /\ NoPlaysKnowledge("run")
    /\ NoPlaysKnowledge("stream")
    /\ intent_result["run"].intent = "combined"
    /\ RunOver
    /\ StreamOver
    /\ response.response_tier = "tier3"
    /\ frames[2] = ChunkFrame(TIER3_ANSWER)

(***************************************************************************)
(* Blocking provider calls and the event loop, under SpecLoop.             *)
(***************************************************************************)
\* C22: while one request is waiting on a classification or retrieval
\* provider call, any other request that is ready to go on can be resumed:
\* on both surfaces the call does not occupy the event-loop thread.
C22_OtherRequestsProgress ==
    \A a, b \in Requests :
        (a # b /\ task[a].pc \in InProviderCall /\ task[b].pc \in Runnable) =>
            ENABLED LoopResume(b)


(***************************************************************************)
(* C23: a disconnected stream emits nothing more.                          *)
(***************************************************************************)
StreamClosed == pc["stream"] = "s_closed"

\* C23: the step in which the streaming client disconnects, and every step
\* after it, leaves the frames emitted as they were: no chunk, no done and no
\* error frame follows the disconnect, and the result of a provider call that
\* was in flight is not put into the request's state.
C23_NoFrameAfterDisconnect ==
    [][(StreamClosed \/ StreamClosed')
         => /\ frames' = frames
            /\ intent_result' = intent_result
            /\ chunks' = chunks
            /\ token_buffer' = token_buffer]_vars

\* The client went away in the middle of a grounded token relay.
C23_Witness ==
    /\ StreamClosed
    /\ Len(frames) = 2
    /\ frames[1].response_tier = "grounded"
    /\ frames[2].type = "chunk"
    /\ Len(token_buffer) = 2


(***************************************************************************)
(* C24: the IntentResult a request carries is within the contract.         *)
(***************************************************************************)
\* Confidence is kept in hundredths: [0, 1] is 0..100.
WithinContract(ir) == ir.intent \in KnownIntents /\ ir.confidence \in 0..100

\* C24: the IntentResult each surface decides its tier on, the one in the
\* response returned by run and the one in every meta frame of run_stream
\* have one of the five intents and a confidence within [0, 1], whatever the
\* provider replied.
C24_IntentResultWithinContract ==
    /\ \A s \in Surfaces :
          intent_result[s] # NoIntent => WithinContract(intent_result[s])
    /\ response # NoResponse => WithinContract(response.intent)
    /\ \A i \in 1..Len(frames) :
          frames[i].type = "meta" => WithinContract(frames[i].intent)


(***************************************************************************)
(* C25: the short-circuit of retrieve_chunks against the filtered query.   *)
(***************************************************************************)
\* The condition under which retrieve_chunks returns [] without a query.
ShortCircuited(ctx, intent) ==
    assigned_play_ids(ctx) = <<>> /\ intent # "performance_history"

\* C25: whenever retrieve_chunks short-circuits (no assigned plays, intent
\* other than performance_history), the filter built for the same context and
\* intent lets no index record through, so the empty list is what the
\* filtered query would have returned.
C25_ShortCircuitChangesNothing ==
    \A k \in Slots :
        (fbuilt[k] /\ ShortCircuited(fctx[k], fintent[k]))
            => \A rec \in IndexRecords : ~Satisfies(rec, ffilter[k])


(***************************************************************************)
(* C26: what get_recommendations recommends, and how many.                 *)
(***************************************************************************)
\* Positions of the assigned plays whose play_id is not excluded.
NonExcluded(ctx, excluded) ==
    {i \in 1..Len(ctx.assigned_plays) : ctx.assigned_plays[i].play_id \notin excluded}

Min(a, b) == IF a < b THEN a ELSE b

\* C26: every recommendation is for an assigned play of the user whose
\* play_id is not in the exclusion set (play_id, title and status are that
\* play's); for max_recs >= 0 the number returned is the minimum of max_recs
\* and the number of non-excluded assigned plays; no assigned plays and an
\* empty exclusion set give the empty list.
C26_RecommendsNonExcludedUpToMax ==
    call_result # NotCalled =>
        LET recs == call_result[1]
            ctx == call_args.user_context
            excluded == call_args.retrieved_play_ids
        IN  /\ \A i \in 1..Len(recs) :
                  \E j \in NonExcluded(ctx, excluded) :
                      /\ recs[i].play_id = ctx.assigned_plays[j].play_id
                      /\ recs[i].play_title = ctx.assigned_plays[j].play_title
                      /\ recs[i].status = ctx.assigned_plays[j].status
            /\ call_args.max_recs >= 0
                  => Len(recs) = Min(call_args.max_recs,
                                     Cardinality(NonExcluded(ctx, excluded)))
            /\ (ctx.assigned_plays = <<>> /\ excluded = {}) => recs = <<>>

\* Four assigned plays, two of them excluded, one recommendation asked for
\* and one returned.
C26_Witness ==
    /\ call_result # NotCalled
    /\ Len(call_args.user_context.assigned_plays) = 4
    /\ call_args.retrieved_play_ids = {"play-1", "play-3"}
    /\ call_args.max_recs = 1
    /\ Len(call_result[1]) = 1
    /\ call_result[1][1].play_id \in {"play-2", "play-4"}


(***************************************************************************)
(* C27: the reason of a recommendation against the rank of its status.     *)
(***************************************************************************)
\* The phrasing that goes with a status rank.
PhrasingOfRank(rank) ==
    CASE rank = 0 -> "continue where you left off"
      [] rank = 1 -> "ready to start"
      [] OTHER -> "review it to reinforce your knowledge"

\* C27: a recommendation whose title shares no word with the query carries
\* the phrasing of the rank its status is sorted by (rank 0 continue, rank 1
\* ready to start, rank 2 or 3 review), for every status string, case
\* variants included; a recommendation whose title shares a word with the
\* query carries the relevance phrasing.
C27_ReasonFollowsRank ==
    call_result # NotCalled =>
        \A i \in 1..Len(call_result[1]) :
            LET rec == call_result[1][i]
            IN  IF Overlap(call_args.query, rec.play_title) > 0
                THEN rec.reason = "covers content related to your query"
                ELSE rec.reason = PhrasingOfRank(_status_rank(rec.status))


(***************************************************************************)
(* C28: sources and tier.                                                  *)
(***************************************************************************)
\* A result of the given tier and sources, built from the chunks cs that the
\* surface retrieved.
SourcesMatchTier(tier, sources, cs) ==
    /\ sources # <<>> <=> tier = "grounded"
    /\ tier = "grounded" => sources = cs

\* C28: the response returned by run and every meta frame of run_stream have
\* a non-empty source list exactly when their tier is grounded; a tier1,
\* tier2 or tier3 result has no sources, also when chunks were retrieved and
\* the generation was insufficient; a grounded result has the chunks the
\* surface retrieved, all of them and in the order retrieved.
C28_SourcesIffGrounded ==
    /\ response # NoResponse =>
           SourcesMatchTier(response.response_tier, response.sources, chunks["run"])
    /\ \A i \in 1..Len(frames) :
           frames[i].type = "meta" =>
               SourcesMatchTier(frames[i].response_tier, frames[i].sources,
                                chunks["stream"])

\* Two chunks were retrieved and the generation was insufficient: run
\* returned tier3 without sources; run_stream, whose meta frame precedes the
\* generation, reported grounded with both chunks.
C28_Witness ==
    /\ StreamOver
    /\ Len(chunks["run"]) = 2
    /\ response.response_tier = "tier3"
    /\ response.sources = <<>>
    /\ frames[1].response_tier = "grounded"
    /\ frames[1].sources = chunks["stream"]
    /\ Len(frames[1].sources) = 2
    /\ frames[1].sources[1].asset_id # frames[1].sources[2].asset_id


(***************************************************************************)
(* C29: the process-wide singletons under concurrent first requests.       *)
(***************************************************************************)
\* C29: however the first requests interleave, at most one DataStore and at
\* most one Orchestrator is ever constructed, and the requests that got
\* their store and their orchestrator all got the same instance.
C29_SingletonsBuiltOnce ==
    /\ process.stores <= 1
    /\ Len(process.orchestrators) <= 1
    /\ \A a, b \in Requests :
          /\ (task[a].store # 0 /\ task[b].store # 0) => task[a].store = task[b].store
          /\ (task[a].orchestrator # 0 /\ task[b].orchestrator # 0)
                => task[a].orchestrator = task[b].orchestrator


(***************************************************************************)
(* C30: every request terminates, once.                                    *)
(***************************************************************************)
\* Each stage (classification, embedding, index query, generation) was
\* entered at most once on each surface.
StagesAtMostOnce ==
    \A s \in Surfaces :
        /\ calls[s].classify <= 1
        /\ calls[s].embed <= 1
        /\ calls[s].index <= 1
        /\ calls[s].generate <= 1

\* run has returned a response or raised, not both; run_stream has ended
\* after exactly one done or error frame, its last frame.
OneTerminalOutcome ==
    /\ RunOver
    /\ (response # NoResponse) # exc["run"]
    /\ (pc["run"] = "r_returned") <=> (response # NoResponse)
    /\ StreamOver
    /\ CountFrames("done") + CountFrames("error") = 1
    /\ frames[Len(frames)].type \in {"done", "error"}

\* C30: with providers that answer, finite token streams and a client that
\* keeps reading, no stage is ever entered twice, and the request comes to
\* rest with exactly one terminal outcome on each surface: run has returned
\* a SearchResponse or raised, run_stream has sent a done or an error frame
\* and ended.
C30_EventuallyOneOutcome ==
    /\ []StagesAtMostOnce
    /\ <>[]OneTerminalOutcome

\* A grounded request at rest: every stage ran once on each surface, run
\* returned, run_stream ended after done.
C30_Witness ==
    /\ OneTerminalOutcome
    /\ response.response_tier = "grounded"
    /\ Len(frames) = 4
    /\ frames[Len(frames)].type = "done"
    /\ \A s \in Surfaces :
          calls[s] = [classify |-> 1, embed |-> 1, index |-> 1, generate |-> 1]

====
